---------------------------- MODULE Spec2Model ----------------------------
(***************************************************************************)
(* RFC 6665 Subscriber / Notifier of JsSIP, as state machines.             *)
(*                                                                         *)
(* Each object is one record variable whose fields are the object's        *)
(* `this._*` fields.  Every handler of the source is an operator from a    *)
(* "machine" [o |-> object, fx |-> effects] to a machine: `fx` is the      *)
(* ordered list of what the handler did to the outside world during one    *)
(* run-to-completion step (replies, emitted events, requests handed to the *)
(* transaction layer, UA dialog table calls, timers set and cleared).      *)
(* Time is in milliseconds, as Date.getTime() and setTimeout count it, and  *)
(* every stored instant (a timer's deadline, an expires timestamp) is kept *)
(* as its distance from the current instant: new Date().getTime() is 0,    *)
(* and the passing of d ms moves every stored instant d ms towards the     *)
(* past.  The code reads a stored instant only in differences with the     *)
(* current one, so two states that differ by a shift of the origin behave  *)
(* alike; an instant further back than Past is stored as Past, because the *)
(* code's comparisons give the same result for all of them.                *)
(***************************************************************************)
EXTENDS Integers, Sequences, FiniteSets, TLC

VARIABLES
    ticks,      \* free clock steps taken so far
    sub,        \* the Subscriber object
    sub_fx,     \* effects of the Subscriber's last step, in order
    sub_tx,     \* SUBSCRIBE transactions handed to the UA and not yet finished
    sub_mon,    \* history of the Subscriber's effects (counts and order flags)
    ntf,        \* the Notifier object
    ntf_fx,     \* effects of the Notifier's last step, in order
    ntf_tx,     \* NOTIFY requests handed to the dialog and not yet finished
    ntf_mon,    \* history of the Notifier's effects
    wire,       \* composed run: messages in flight on the loop socket
    app         \* composed run: the test application's own state

vars == <<ticks, sub, sub_fx, sub_tx, sub_mon, ntf, ntf_fx, ntf_tx, ntf_mon, wire, app>>
sub_vars == <<sub, sub_fx, sub_tx, sub_mon>>
ntf_vars == <<ntf, ntf_fx, ntf_tx, ntf_mon>>
loop_vars == <<wire, app>>

(***************************************************************************)
(* Bounds of the model.                                                    *)
(***************************************************************************)
MaxSends == 2        \* SUBSCRIBE requests one Subscriber sends (CSeq steps)
MaxNotifies == 3     \* NOTIFY requests one Notifier sends
MaxTicks == 1        \* free clock steps of TickMs each
TickMs == 500        \* length of one free clock step, ms
MaxCount == 2        \* event counters saturate here (0, 1, "more than once")
MaxReentry == 2      \* listeners running inside listeners

(***************************************************************************)
(* Program constants.                                                      *)
(***************************************************************************)
DefaultExpires == 900            \* RFC 6665 3.1.1 default
FinalNotifyTimeout == 30000      \* unsubscribe(): final_notify_timeout
MaxTimeDeviation == 2000         \* receiveRequest(): max_time_deviation
RefreshRandomFrom == 140         \* _scheduleSubscribe(): expires >= 140
RefreshRandomMargin == 70        \* _scheduleSubscribe(): (expires / 2) - 70
RefreshTail == 5000              \* _scheduleSubscribe(): (expires * 1000) - 5000

\* Subscriber termination codes.
SUBSCRIBE_RESPONSE_TIMEOUT == 0
SUBSCRIBE_TRANSPORT_ERROR == 1
SUBSCRIBE_NON_OK_RESPONSE == 2
SUBSCRIBE_FAILED_AUTHENTICATION == 3
UNSUBSCRIBE_TIMEOUT == 4
RECEIVE_FINAL_NOTIFY == 5
RECEIVE_BAD_NOTIFY == 6

\* Notifier termination codes and states.
NOTIFY_RESPONSE_TIMEOUT == 0
NOTIFY_TRANSPORT_ERROR == 1
NOTIFY_NON_OK_RESPONSE == 2
NOTIFY_FAILED_AUTHENTICATION == 3
SEND_FINAL_NOTIFY == 4
RECEIVE_UNSUBSCRIBE == 5
SUBSCRIPTION_EXPIRED == 6
STATE_PENDING == 0
STATE_ACTIVE == 1
STATE_TERMINATED == 2

(***************************************************************************)
(* JavaScript values.                                                      *)
(***************************************************************************)
\* `undefined` / `null` where the code holds a string.
Undefined == "undefined"
Null == "null"

\* A header value as getHeader() returns it (a string of decimal digits), a
\* number, or NaN.
JsStr(n) == [t |-> "string", n |-> n]
JsNum(n) == [t |-> "number", n |-> n]
JsNaN == [t |-> "NaN", n |-> 0]
JsNull == [t |-> "null", n |-> 0]

\* parseInt(v) of a string of digits or of undefined.
ParseInt(present, n) == IF present THEN JsNum(n) ELSE JsNaN

\* a === k for a number k: no conversion, a string never equals a number.
StrictEqNum(v, k) == v.t = "number" /\ v.n = k

\* ToNumber(v), used by v * 1000 and v > 0 (NaN is handled by the callers).
ToNumber(v) == v.n

\* v > k: false for NaN, numeric comparison after conversion otherwise.
JsGreater(v, k) == v.t # "NaN" /\ ToNumber(v) > k

Max(a, b) == IF a > b THEN a ELSE b
Min(a, b) == IF a < b THEN a ELSE b

\* String.prototype.toLowerCase() on the Subscription-State values used.
ToLowerCase(s) ==
    CASE s = "Active" -> "active"
      [] s = "Terminated" -> "terminated"
      [] OTHER -> s

(***************************************************************************)
(* Effects.                                                                *)
(***************************************************************************)
FxReply(code) == [k |-> "reply", code |-> code]
FxEmit(name, args) == [k |-> "emit", name |-> name, args |-> args]
FxSend(method, hdr, body) == [k |-> "send", method |-> method, hdr |-> hdr, body |-> body]
FxUA(call) == [k |-> "ua", call |-> call]
FxSetTimeout(timer, delay) == [k |-> "setTimeout", timer |-> timer, delay |-> delay]
\* The setTimeout of _scheduleSubscribe(expires).
FxSchedule(expires, delay) ==
    [k |-> "setTimeout", timer |-> "expires_timer", delay |-> delay, expires |-> expires]
FxClearTimeout(timer) == [k |-> "clearTimeout", timer |-> timer]
FxThrow(what) == [k |-> "throw", what |-> what]
FxCall(what) == [k |-> "call", what |-> what]

IsEmit(e, name) == e.k = "emit" /\ e.name = name
IsSend(e) == e.k = "send"
IsUA(e, call) == e.k = "ua" /\ e.call = call

\* How many times fx emits the event `name`, and the places where it does.
EmitIdx(fx, name) == {i \in DOMAIN fx : IsEmit(fx[i], name)}
EmitCount(fx, name) == Cardinality(EmitIdx(fx, name))
SendIdx(fx) == {i \in DOMAIN fx : IsSend(fx[i])}
ReplyIdx(fx) == {i \in DOMAIN fx : fx[i].k = "reply"}
AnyEmitIdx(fx) == {i \in DOMAIN fx : fx[i].k = "emit"}
SetTimeoutIdx(fx) == {i \in DOMAIN fx : fx[i].k = "setTimeout"}

Do(m, e) == [m EXCEPT !.fx = Append(@, e)]

\* new Date().getTime(): the origin of the stored instants.
Now == 0
\* Where instants of the far past are kept.
Past == -1

\* A timer: setTimeout arms it for Now + delay (a delay below 0 counts as 0),
\* clearTimeout and the firing disarm it.
NoTimer == [armed |-> FALSE, at |-> 0]
Timer(delay) == [armed |-> TRUE, at |-> Now + Max(delay, 0)]
TimerDue(t) == t.armed /\ t.at <= Now

\* A timestamp field: null (which arithmetic reads as 0, the epoch) or an instant.
NullTimestamp == [set |-> FALSE, at |-> Past]
Timestamp(t) == [set |-> TRUE, at |-> t]

\* The same timer and timestamp d ms later.
TimerLater(t, d) == IF t.armed THEN [t EXCEPT !.at = Max(@ - d, Now)] ELSE t
TimestampLater(t, d) == IF t.set THEN [t EXCEPT !.at = Max(@ - d, Past)] ELSE t

(***************************************************************************)
(* Subscriber (src/unnamed/part_001, lines 408-868).                       *)
(***************************************************************************)
NullId == <<>>
CallId == "call-id"
FromTag == "from-tag"

\* Values the environment and the application choose from.
EventNames == {"weather", "presence"}
EventIds == {Undefined, "1"}
Bodies == {Null, "text"}
ToTags == {"to-tag"}
ExpiresValues == {0, 5}          \* Expires of a 2xx (absent: 900)
SubsStateExpires == {3, 150}     \* expires of a Subscription-State
RandomNumerators == {0, 9}     \* Math.random() = k / RandomDen
RandomDen == 10
Reasons == {Undefined, "noresource"}
StatusCodes == {100, 200, 401, 407, 404}
SubReactions == {"none", "unsubscribe"}

\* The object the constructor builds (lines 437-548).
SubscriberNew(eventId, expires, contentType) ==
    [ event_name |-> "weather",
      event_id |-> eventId,
      expires |-> expires,
      content_type |-> contentType,
      is_first_notify_request |-> TRUE,
      to_tag |-> Null,
      cseq |-> 0,                    \* counted from the random initial CSeq
      state |-> "init",
      id |-> NullId,
      expires_timer |-> NoTimer,
      expires_timestamp |-> NullTimestamp,
      send_unsubscribe |-> FALSE,
      unsubscribe_timeout_timer |-> NoTimer,
      is_terminated |-> FALSE ]

\* The SUBSCRIBE headers the constructor composes (lines 524-542), with the
\* Expires value and the Content-Type the caller passes.
SubHeaders(o, expires, contentType) ==
    [ event |-> <<o.event_name, o.event_id>>,
      expires |-> expires,
      content_type |-> contentType ]

\* A machine at the start of the entry point `what`.
SubEnter(what) == [o |-> sub, fx |-> <<FxCall(what)>>]

\* _send (lines 845-850).
SubSend(m, body, headers) ==
    Do([m EXCEPT !.o.cseq = @ + 1], FxSend("SUBSCRIBE", headers, body))

\* unsubscribe without its 30 s timer.
SubUnsubscribe_NoTimer(m, body) ==
    IF m.o.send_unsubscribe
    THEN m
    ELSE SubSend([m EXCEPT !.o.send_unsubscribe = TRUE], body,
                 SubHeaders(m.o, 0, Undefined))

\* unsubscribe without its check of _send_unsubscribe.
SubUnsubscribe_Unguarded(m, body) ==
    LET m1 == [m EXCEPT !.o.send_unsubscribe = TRUE]
        m2 == SubSend(m1, body, SubHeaders(m1.o, 0, Undefined))
        m3 == [m2 EXCEPT !.o.unsubscribe_timeout_timer = Timer(FinalNotifyTimeout)]
    IN  Do(m3, FxSetTimeout("unsubscribe_timeout_timer", FinalNotifyTimeout))

\* unsubscribe (lines 771-799).
SubUnsubscribe(m, body) ==
    IF m.o.send_unsubscribe
    THEN m
    ELSE LET m1 == [m EXCEPT !.o.send_unsubscribe = TRUE]
             m2 == SubSend(m1, body, SubHeaders(m1.o, 0, Undefined))
             m3 == [m2 EXCEPT !.o.unsubscribe_timeout_timer = Timer(FinalNotifyTimeout)]
         IN  Do(m3, FxSetTimeout("unsubscribe_timeout_timer", FinalNotifyTimeout))

\* this.emit(name, args), and the application's listener running inside it: a
\* listener of `notify` may call unsubscribe() (test, lines 73-87).
SubEmit(m, name, args, react) ==
    LET m1 == Do(m, FxEmit(name, args))
    IN  IF name = "notify" /\ react = "unsubscribe"
        THEN SubUnsubscribe(Do(m1, FxCall("unsubscribe")), Null)
        ELSE IF name = "notify" /\ react = "test"
        THEN SubUnsubscribe(Do(m1, FxCall("unsubscribe")), "text")
        ELSE m1

\* _dialogTerminated without its is_terminated guard.
SubDialogTerminated_Unguarded(m, terminationCode, reason, react) ==
    LET m1 == [m EXCEPT !.o.is_terminated = TRUE,
                        !.o.state = "terminated",
                        !.o.expires_timer = NoTimer,
                        !.o.unsubscribe_timeout_timer = NoTimer]
        m2 == Do(Do(m1, FxClearTimeout("expires_timer")),
                 FxClearTimeout("unsubscribe_timeout_timer"))
        m3 == IF m2.o.id # NullId THEN Do(m2, FxUA("destroyDialog")) ELSE m2
    IN  SubEmit(m3, "terminated",
                [code |-> terminationCode, reason |-> reason], react)

\* _dialogTerminated leaving _state as it is.
SubDialogTerminated_KeepState(m, terminationCode, reason, react) ==
    IF m.o.is_terminated
    THEN m
    ELSE LET m1 == [m EXCEPT !.o.is_terminated = TRUE,
                             !.o.expires_timer = NoTimer,
                             !.o.unsubscribe_timeout_timer = NoTimer]
             m2 == Do(Do(m1, FxClearTimeout("expires_timer")),
                      FxClearTimeout("unsubscribe_timeout_timer"))
             m3 == IF m2.o.id # NullId THEN Do(m2, FxUA("destroyDialog")) ELSE m2
         IN  SubEmit(m3, "terminated",
                     [code |-> terminationCode, reason |-> reason], react)

\* _dialogTerminated (lines 820-843).
SubDialogTerminated(m, terminationCode, reason, react) ==
    IF m.o.is_terminated
    THEN m
    ELSE LET m1 == [m EXCEPT !.o.is_terminated = TRUE,
                             !.o.state = "terminated",
                             !.o.expires_timer = NoTimer,
                             !.o.unsubscribe_timeout_timer = NoTimer]
             m2 == Do(Do(m1, FxClearTimeout("expires_timer")),
                      FxClearTimeout("unsubscribe_timeout_timer"))
             m3 == IF m2.o.id # NullId THEN Do(m2, FxUA("destroyDialog")) ELSE m2
         IN  SubEmit(m3, "terminated",
                     [code |-> terminationCode, reason |-> reason], react)

\* _scheduleSubscribe's delay with the random part taken of expires / 2.
RefreshTimeout_NoMargin(expires, k) ==
    IF expires >= RefreshRandomFrom
    THEN ((expires * 1000) \div 2) + ((500 * expires) * k) \div RandomDen
    ELSE (expires * 1000) - RefreshTail

\* The delay _scheduleSubscribe computes (lines 854-855), Math.random()
\* being k / RandomDen.
RefreshTimeout(expires, k) ==
    IF expires >= RefreshRandomFrom
    THEN ((expires * 1000) \div 2)
         + (((500 * expires) - (RefreshRandomMargin * 1000)) * k) \div RandomDen
    ELSE (expires * 1000) - RefreshTail

\* _scheduleSubscribe (lines 852-867).
SubScheduleSubscribe(m, expires, k) ==
    LET timeout == RefreshTimeout(expires, k)
        m1 == [m EXCEPT !.o.expires_timestamp = Timestamp(Now + (expires * 1000)),
                        !.o.expires_timer = Timer(timeout)]
    IN  Do(Do(m1, FxClearTimeout("expires_timer")), FxSchedule(expires, timeout))

\* The callback _scheduleSubscribe arms (lines 862-866).
SubRefresh(m) ==
    SubSend([m EXCEPT !.o.expires_timer = NoTimer], Null,
            SubHeaders(m.o, m.o.expires, Undefined))

\* onReceiveResponse taking 407 for any other failure.
SubOnReceiveResponse_No407(m, response, k, react) ==
    IF response.status_code >= 200 /\ response.status_code < 300
    THEN LET m1 == IF m.o.to_tag = Null
                   THEN Do([m EXCEPT !.o.to_tag = response.to_tag,
                                     !.o.id = <<CallId, FromTag, response.to_tag>>],
                           FxUA("newDialog"))
                   ELSE m
             expires == IF response.has_expires
                        THEN response.expires
                        ELSE DefaultExpires
         IN  IF expires > 0 THEN SubScheduleSubscribe(m1, expires, k) ELSE m1
    ELSE IF response.status_code = 401
    THEN SubDialogTerminated(m, SUBSCRIBE_FAILED_AUTHENTICATION, Undefined, react)
    ELSE IF response.status_code >= 300
    THEN SubDialogTerminated(m, SUBSCRIBE_NON_OK_RESPONSE, Undefined, react)
    ELSE m

\* onReceiveResponse without the default for a missing Expires.
SubOnReceiveResponse_NoDefault(m, response, k, react) ==
    IF response.status_code >= 200 /\ response.status_code < 300
    THEN LET m1 == IF m.o.to_tag = Null
                   THEN Do([m EXCEPT !.o.to_tag = response.to_tag,
                                     !.o.id = <<CallId, FromTag, response.to_tag>>],
                           FxUA("newDialog"))
                   ELSE m
             expires == IF response.has_expires
                        THEN response.expires
                        ELSE 0
         IN  IF expires > 0 THEN SubScheduleSubscribe(m1, expires, k) ELSE m1
    ELSE IF response.status_code = 401 \/ response.status_code = 407
    THEN SubDialogTerminated(m, SUBSCRIBE_FAILED_AUTHENTICATION, Undefined, react)
    ELSE IF response.status_code >= 300
    THEN SubDialogTerminated(m, SUBSCRIBE_NON_OK_RESPONSE, Undefined, react)
    ELSE m

\* onReceiveResponse (lines 568-616).  response.getHeader('expires') is a
\* string of digits, or undefined when the header is absent.
SubOnReceiveResponse(m, response, k, react) ==
    IF response.status_code >= 200 /\ response.status_code < 300
    THEN LET m1 == IF m.o.to_tag = Null
                   THEN Do([m EXCEPT !.o.to_tag = response.to_tag,
                                     !.o.id = <<CallId, FromTag, response.to_tag>>],
                           FxUA("newDialog"))
                   ELSE m
             expires == IF response.has_expires
                        THEN response.expires
                        ELSE DefaultExpires
         IN  IF expires > 0 THEN SubScheduleSubscribe(m1, expires, k) ELSE m1
    ELSE IF response.status_code = 401 \/ response.status_code = 407
    THEN SubDialogTerminated(m, SUBSCRIBE_FAILED_AUTHENTICATION, Undefined, react)
    ELSE IF response.status_code >= 300
    THEN SubDialogTerminated(m, SUBSCRIBE_NON_OK_RESPONSE, Undefined, react)
    ELSE m

\* receiveRequest comparing the Event's name only.
SubReceiveRequest_NameOnly(m, request, k, react) ==
    IF request.method # "NOTIFY"
    THEN Do(m, FxReply(405))
    ELSE IF ~request.event.present
    THEN SubDialogTerminated(Do(m, FxReply(400)), RECEIVE_BAD_NOTIFY, Undefined, react)
    ELSE IF request.event.name # m.o.event_name
    THEN SubDialogTerminated(Do(m, FxReply(489)), RECEIVE_BAD_NOTIFY, Undefined, react)
    ELSE IF ~request.subs_state.present
    THEN SubDialogTerminated(Do(m, FxReply(400)), RECEIVE_BAD_NOTIFY, Undefined, react)
    ELSE
    LET subs_state == request.subs_state
        m1 == [Do(m, FxReply(200)) EXCEPT !.o.is_first_notify_request = FALSE]
        new_state == ToLowerCase(subs_state.state)
        prev_state == m.o.state
        m2 == IF prev_state # "terminated" /\ new_state # "terminated"
              THEN LET ma == [m1 EXCEPT !.o.state = new_state]
                   IN  IF subs_state.has_expires
                          /\ ma.o.expires_timestamp.at
                               - (Now + (subs_state.expires * 1000)) > MaxTimeDeviation
                       THEN SubScheduleSubscribe(ma, subs_state.expires, k)
                       ELSE ma
              ELSE m1
        m3 == IF prev_state # "active" /\ new_state = "active"
              THEN SubEmit(m2, "active", [none |-> TRUE], react)
              ELSE m2
        is_final == new_state = "terminated"
        reason == IF new_state = "terminated" THEN Undefined ELSE subs_state.reason
        m4 == IF request.body # Null
              THEN SubEmit(m3, "notify",
                           [is_final |-> is_final, body |-> request.body,
                            content_type |-> request.content_type], react)
              ELSE m3
    IN  IF is_final
        THEN SubDialogTerminated(m4, RECEIVE_FINAL_NOTIFY, reason, react)
        ELSE m4

\* receiveRequest answering a NOTIFY without Event and going on.
SubReceiveRequest_EventUnchecked(m, request, k, react) ==
    IF request.method # "NOTIFY"
    THEN Do(m, FxReply(405))
    ELSE IF ~request.event.present
    THEN Do(m, FxReply(400))
    ELSE IF request.event.name # m.o.event_name \/ request.event.id # m.o.event_id
    THEN SubDialogTerminated(Do(m, FxReply(489)), RECEIVE_BAD_NOTIFY, Undefined, react)
    ELSE IF ~request.subs_state.present
    THEN SubDialogTerminated(Do(m, FxReply(400)), RECEIVE_BAD_NOTIFY, Undefined, react)
    ELSE
    LET subs_state == request.subs_state
        m1 == [Do(m, FxReply(200)) EXCEPT !.o.is_first_notify_request = FALSE]
        new_state == ToLowerCase(subs_state.state)
        prev_state == m.o.state
        m2 == IF prev_state # "terminated" /\ new_state # "terminated"
              THEN LET ma == [m1 EXCEPT !.o.state = new_state]
                   IN  IF subs_state.has_expires
                          /\ ma.o.expires_timestamp.at
                               - (Now + (subs_state.expires * 1000)) > MaxTimeDeviation
                       THEN SubScheduleSubscribe(ma, subs_state.expires, k)
                       ELSE ma
              ELSE m1
        m3 == IF prev_state # "active" /\ new_state = "active"
              THEN SubEmit(m2, "active", [none |-> TRUE], react)
              ELSE m2
        is_final == new_state = "terminated"
        reason == IF new_state = "terminated" THEN Undefined ELSE subs_state.reason
        m4 == IF request.body # Null
              THEN SubEmit(m3, "notify",
                           [is_final |-> is_final, body |-> request.body,
                            content_type |-> request.content_type], react)
              ELSE m3
    IN  IF is_final
        THEN SubDialogTerminated(m4, RECEIVE_FINAL_NOTIFY, reason, react)
        ELSE m4

\* receiveRequest answering a NOTIFY without Subscription-State and going on.
SubReceiveRequest_StateUnchecked(m, request, k, react) ==
    IF request.method # "NOTIFY"
    THEN Do(m, FxReply(405))
    ELSE IF ~request.event.present
    THEN SubDialogTerminated(Do(m, FxReply(400)), RECEIVE_BAD_NOTIFY, Undefined, react)
    ELSE IF request.event.name # m.o.event_name \/ request.event.id # m.o.event_id
    THEN SubDialogTerminated(Do(m, FxReply(489)), RECEIVE_BAD_NOTIFY, Undefined, react)
    ELSE IF ~request.subs_state.present
    THEN Do(m, FxReply(400))
    ELSE
    LET subs_state == request.subs_state
        m1 == [Do(m, FxReply(200)) EXCEPT !.o.is_first_notify_request = FALSE]
        new_state == ToLowerCase(subs_state.state)
        prev_state == m.o.state
        m2 == IF prev_state # "terminated" /\ new_state # "terminated"
              THEN LET ma == [m1 EXCEPT !.o.state = new_state]
                   IN  IF subs_state.has_expires
                          /\ ma.o.expires_timestamp.at
                               - (Now + (subs_state.expires * 1000)) > MaxTimeDeviation
                       THEN SubScheduleSubscribe(ma, subs_state.expires, k)
                       ELSE ma
              ELSE m1
        m3 == IF prev_state # "active" /\ new_state = "active"
              THEN SubEmit(m2, "active", [none |-> TRUE], react)
              ELSE m2
        is_final == new_state = "terminated"
        reason == IF new_state = "terminated" THEN Undefined ELSE subs_state.reason
        m4 == IF request.body # Null
              THEN SubEmit(m3, "notify",
                           [is_final |-> is_final, body |-> request.body,
                            content_type |-> request.content_type], react)
              ELSE m3
    IN  IF is_final
        THEN SubDialogTerminated(m4, RECEIVE_FINAL_NOTIFY, reason, react)
        ELSE m4

\* receiveRequest treating another method as a bad NOTIFY.
SubReceiveRequest_MethodFatal(m, request, k, react) ==
    IF request.method # "NOTIFY"
    THEN SubDialogTerminated(Do(m, FxReply(405)), RECEIVE_BAD_NOTIFY, Undefined, react)
    ELSE IF ~request.event.present
    THEN SubDialogTerminated(Do(m, FxReply(400)), RECEIVE_BAD_NOTIFY, Undefined, react)
    ELSE IF request.event.name # m.o.event_name \/ request.event.id # m.o.event_id
    THEN SubDialogTerminated(Do(m, FxReply(489)), RECEIVE_BAD_NOTIFY, Undefined, react)
    ELSE IF ~request.subs_state.present
    THEN SubDialogTerminated(Do(m, FxReply(400)), RECEIVE_BAD_NOTIFY, Undefined, react)
    ELSE
    LET subs_state == request.subs_state
        m1 == [Do(m, FxReply(200)) EXCEPT !.o.is_first_notify_request = FALSE]
        new_state == ToLowerCase(subs_state.state)
        prev_state == m.o.state
        m2 == IF prev_state # "terminated" /\ new_state # "terminated"
              THEN LET ma == [m1 EXCEPT !.o.state = new_state]
                   IN  IF subs_state.has_expires
                          /\ ma.o.expires_timestamp.at
                               - (Now + (subs_state.expires * 1000)) > MaxTimeDeviation
                       THEN SubScheduleSubscribe(ma, subs_state.expires, k)
                       ELSE ma
              ELSE m1
        m3 == IF prev_state # "active" /\ new_state = "active"
              THEN SubEmit(m2, "active", [none |-> TRUE], react)
              ELSE m2
        is_final == new_state = "terminated"
        reason == IF new_state = "terminated" THEN Undefined ELSE subs_state.reason
        m4 == IF request.body # Null
              THEN SubEmit(m3, "notify",
                           [is_final |-> is_final, body |-> request.body,
                            content_type |-> request.content_type], react)
              ELSE m3
    IN  IF is_final
        THEN SubDialogTerminated(m4, RECEIVE_FINAL_NOTIFY, reason, react)
        ELSE m4

\* receiveRequest terminating before it emits `notify`.
SubReceiveRequest_TerminateFirst(m, request, k, react) ==
    IF request.method # "NOTIFY"
    THEN Do(m, FxReply(405))
    ELSE IF ~request.event.present
    THEN SubDialogTerminated(Do(m, FxReply(400)), RECEIVE_BAD_NOTIFY, Undefined, react)
    ELSE IF request.event.name # m.o.event_name \/ request.event.id # m.o.event_id
    THEN SubDialogTerminated(Do(m, FxReply(489)), RECEIVE_BAD_NOTIFY, Undefined, react)
    ELSE IF ~request.subs_state.present
    THEN SubDialogTerminated(Do(m, FxReply(400)), RECEIVE_BAD_NOTIFY, Undefined, react)
    ELSE
    LET subs_state == request.subs_state
        m1 == [Do(m, FxReply(200)) EXCEPT !.o.is_first_notify_request = FALSE]
        new_state == ToLowerCase(subs_state.state)
        prev_state == m.o.state
        m2 == IF prev_state # "terminated" /\ new_state # "terminated"
              THEN LET ma == [m1 EXCEPT !.o.state = new_state]
                   IN  IF subs_state.has_expires
                          /\ ma.o.expires_timestamp.at
                               - (Now + (subs_state.expires * 1000)) > MaxTimeDeviation
                       THEN SubScheduleSubscribe(ma, subs_state.expires, k)
                       ELSE ma
              ELSE m1
        m3 == IF prev_state # "active" /\ new_state = "active"
              THEN SubEmit(m2, "active", [none |-> TRUE], react)
              ELSE m2
        is_final == new_state = "terminated"
        reason == IF new_state = "terminated" THEN Undefined ELSE subs_state.reason
        m4 == IF is_final
              THEN SubDialogTerminated(m3, RECEIVE_FINAL_NOTIFY, reason, react)
              ELSE m3
    IN  IF request.body # Null
        THEN SubEmit(m4, "notify",
                     [is_final |-> is_final, body |-> request.body,
                      content_type |-> request.content_type], react)
        ELSE m4

\* receiveRequest adopting the state of a NOTIFY whatever its own.
SubReceiveRequest_AdoptAlways(m, request, k, react) ==
    IF request.method # "NOTIFY"
    THEN Do(m, FxReply(405))
    ELSE IF ~request.event.present
    THEN SubDialogTerminated(Do(m, FxReply(400)), RECEIVE_BAD_NOTIFY, Undefined, react)
    ELSE IF request.event.name # m.o.event_name \/ request.event.id # m.o.event_id
    THEN SubDialogTerminated(Do(m, FxReply(489)), RECEIVE_BAD_NOTIFY, Undefined, react)
    ELSE IF ~request.subs_state.present
    THEN SubDialogTerminated(Do(m, FxReply(400)), RECEIVE_BAD_NOTIFY, Undefined, react)
    ELSE
    LET subs_state == request.subs_state
        m1 == [Do(m, FxReply(200)) EXCEPT !.o.is_first_notify_request = FALSE]
        new_state == ToLowerCase(subs_state.state)
        prev_state == m.o.state
        m2 == IF new_state # "terminated"
              THEN LET ma == [m1 EXCEPT !.o.state = new_state]
                   IN  IF subs_state.has_expires
                          /\ ma.o.expires_timestamp.at
                               - (Now + (subs_state.expires * 1000)) > MaxTimeDeviation
                       THEN SubScheduleSubscribe(ma, subs_state.expires, k)
                       ELSE ma
              ELSE m1
        m3 == IF prev_state # "active" /\ new_state = "active"
              THEN SubEmit(m2, "active", [none |-> TRUE], react)
              ELSE m2
        is_final == new_state = "terminated"
        reason == IF new_state = "terminated" THEN Undefined ELSE subs_state.reason
        m4 == IF request.body # Null
              THEN SubEmit(m3, "notify",
                           [is_final |-> is_final, body |-> request.body,
                            content_type |-> request.content_type], react)
              ELSE m3
    IN  IF is_final
        THEN SubDialogTerminated(m4, RECEIVE_FINAL_NOTIFY, reason, react)
        ELSE m4

\* receiveRequest rescheduling for any earlier deadline.
SubReceiveRequest_AnyShorter(m, request, k, react) ==
    IF request.method # "NOTIFY"
    THEN Do(m, FxReply(405))
    ELSE IF ~request.event.present
    THEN SubDialogTerminated(Do(m, FxReply(400)), RECEIVE_BAD_NOTIFY, Undefined, react)
    ELSE IF request.event.name # m.o.event_name \/ request.event.id # m.o.event_id
    THEN SubDialogTerminated(Do(m, FxReply(489)), RECEIVE_BAD_NOTIFY, Undefined, react)
    ELSE IF ~request.subs_state.present
    THEN SubDialogTerminated(Do(m, FxReply(400)), RECEIVE_BAD_NOTIFY, Undefined, react)
    ELSE
    LET subs_state == request.subs_state
        m1 == [Do(m, FxReply(200)) EXCEPT !.o.is_first_notify_request = FALSE]
        new_state == ToLowerCase(subs_state.state)
        prev_state == m.o.state
        m2 == IF prev_state # "terminated" /\ new_state # "terminated"
              THEN LET ma == [m1 EXCEPT !.o.state = new_state]
                   IN  IF subs_state.has_expires
                          /\ ma.o.expires_timestamp.at
                               - (Now + (subs_state.expires * 1000)) > 0
                       THEN SubScheduleSubscribe(ma, subs_state.expires, k)
                       ELSE ma
              ELSE m1
        m3 == IF prev_state # "active" /\ new_state = "active"
              THEN SubEmit(m2, "active", [none |-> TRUE], react)
              ELSE m2
        is_final == new_state = "terminated"
        reason == IF new_state = "terminated" THEN Undefined ELSE subs_state.reason
        m4 == IF request.body # Null
              THEN SubEmit(m3, "notify",
                           [is_final |-> is_final, body |-> request.body,
                            content_type |-> request.content_type], react)
              ELSE m3
    IN  IF is_final
        THEN SubDialogTerminated(m4, RECEIVE_FINAL_NOTIFY, reason, react)
        ELSE m4

\* receiveRequest replying 200 after its events.
SubReceiveRequest_ReplyLate(m, request, k, react) ==
    IF request.method # "NOTIFY"
    THEN Do(m, FxReply(405))
    ELSE IF ~request.event.present
    THEN SubDialogTerminated(Do(m, FxReply(400)), RECEIVE_BAD_NOTIFY, Undefined, react)
    ELSE IF request.event.name # m.o.event_name \/ request.event.id # m.o.event_id
    THEN SubDialogTerminated(Do(m, FxReply(489)), RECEIVE_BAD_NOTIFY, Undefined, react)
    ELSE IF ~request.subs_state.present
    THEN SubDialogTerminated(Do(m, FxReply(400)), RECEIVE_BAD_NOTIFY, Undefined, react)
    ELSE
    LET subs_state == request.subs_state
        m1 == [m EXCEPT !.o.is_first_notify_request = FALSE]
        new_state == ToLowerCase(subs_state.state)
        prev_state == m.o.state
        m2 == IF prev_state # "terminated" /\ new_state # "terminated"
              THEN LET ma == [m1 EXCEPT !.o.state = new_state]
                   IN  IF subs_state.has_expires
                          /\ ma.o.expires_timestamp.at
                               - (Now + (subs_state.expires * 1000)) > MaxTimeDeviation
                       THEN SubScheduleSubscribe(ma, subs_state.expires, k)
                       ELSE ma
              ELSE m1
        m3 == IF prev_state # "active" /\ new_state = "active"
              THEN SubEmit(m2, "active", [none |-> TRUE], react)
              ELSE m2
        is_final == new_state = "terminated"
        reason == IF new_state = "terminated" THEN Undefined ELSE subs_state.reason
        m4 == IF request.body # Null
              THEN SubEmit(m3, "notify",
                           [is_final |-> is_final, body |-> request.body,
                            content_type |-> request.content_type], react)
              ELSE m3
    IN  Do(IF is_final
           THEN SubDialogTerminated(m4, RECEIVE_FINAL_NOTIFY, reason, react)
           ELSE m4,
           FxReply(200))

\* receiveRequest (lines 621-735).  request.parseHeader(name) yields
\* undefined (present = FALSE) for an absent or unparseable header.
SubReceiveRequest(m, request, k, react) ==
    IF request.method # "NOTIFY"
    THEN Do(m, FxReply(405))
    ELSE IF ~request.event.present
    THEN SubDialogTerminated(Do(m, FxReply(400)), RECEIVE_BAD_NOTIFY, Undefined, react)
    ELSE IF request.event.name # m.o.event_name \/ request.event.id # m.o.event_id
    THEN SubDialogTerminated(Do(m, FxReply(489)), RECEIVE_BAD_NOTIFY, Undefined, react)
    ELSE IF ~request.subs_state.present
    THEN SubDialogTerminated(Do(m, FxReply(400)), RECEIVE_BAD_NOTIFY, Undefined, react)
    ELSE
    LET subs_state == request.subs_state
        m1 == [Do(m, FxReply(200)) EXCEPT !.o.is_first_notify_request = FALSE]
        new_state == ToLowerCase(subs_state.state)
        prev_state == m.o.state
        m2 == IF prev_state # "terminated" /\ new_state # "terminated"
              THEN LET ma == [m1 EXCEPT !.o.state = new_state]
                   IN  IF subs_state.has_expires
                          /\ ma.o.expires_timestamp.at
                               - (Now + (subs_state.expires * 1000)) > MaxTimeDeviation
                       THEN SubScheduleSubscribe(ma, subs_state.expires, k)
                       ELSE ma
              ELSE m1
        m3 == IF prev_state # "active" /\ new_state = "active"
              THEN SubEmit(m2, "active", [none |-> TRUE], react)
              ELSE m2
        is_final == new_state = "terminated"
        reason == IF new_state = "terminated" THEN Undefined ELSE subs_state.reason
        m4 == IF request.body # Null
              THEN SubEmit(m3, "notify",
                           [is_final |-> is_final, body |-> request.body,
                            content_type |-> request.content_type], react)
              ELSE m3
    IN  IF is_final
        THEN SubDialogTerminated(m4, RECEIVE_FINAL_NOTIFY, reason, react)
        ELSE m4

\* subscribe sending whatever body it is given.
SubSubscribe_Unchecked(m, body) ==
    LET m1 == IF m.o.state = "init" THEN [m EXCEPT !.o.state = "notify_wait"] ELSE m
    IN  SubSend(m1, body,
                SubHeaders(m1.o, m1.o.expires,
                           IF body # Null THEN m1.o.content_type ELSE Undefined))

\* subscribe (lines 745-765).
SubSubscribe(m, body) ==
    LET m1 == IF m.o.state = "init" THEN [m EXCEPT !.o.state = "notify_wait"] ELSE m
    IN  IF body # Null /\ m1.o.content_type = Undefined
        THEN Do(m1, FxThrow("TypeError"))
        ELSE SubSend(m1, body,
                     SubHeaders(m1.o, m1.o.expires,
                                IF body # Null THEN m1.o.content_type ELSE Undefined))

(***************************************************************************)
(* Notifier (src/lib/Notifier.js, lines 379-750).                          *)
(***************************************************************************)
\* An inbound SUBSCRIBE: getHeader('expires') is the string of `expires`
\* when has_expires, undefined otherwise.
Subscribe(has_expires, expires, body, content_type) ==
    [method |-> "SUBSCRIBE", has_expires |-> has_expires, expires |-> expires,
     body |-> body, content_type |-> content_type]

\* What the application's listeners do: on `subscribe` nothing, notify(body),
\* terminate(body), or as the test's listener (terminate(body) for an
\* unsubscribe, notify(body) otherwise; test, lines 22-39); on `terminated`
\* nothing, terminate(body), or as the test's listener (terminate(body) when
\* send_final_notify; test, lines 41-50).  `depth` bounds listeners running
\* inside listeners.
Reaction(onSubscribe, onTerminated) ==
    [subscribe |-> onSubscribe, terminated |-> onTerminated, depth |-> MaxReentry]
NoReaction == [subscribe |-> "none", terminated |-> "none", depth |-> 0]
NtfReactions ==
    {Reaction(s, t) : s \in {"none", "notify", "terminate"}, t \in {"none", "terminate"}}

NtfEnter(what) == [o |-> ntf, fx |-> <<FxCall(what)>>]

\* _stateNumberToString (lines 740-749).
StateNumberToString(state) ==
    CASE state = STATE_PENDING -> "pending"
      [] state = STATE_ACTIVE -> "active"
      [] state = STATE_TERMINATED -> "terminated"

\* The Subscription-State value with the remaining time as it comes.
NtfSubscriptionState_Unclamped(o) ==
    IF o.state # STATE_TERMINATED
    THEN [state |-> StateNumberToString(o.state),
          has_expires |-> TRUE,
          expires |-> (o.expires_timestamp.at - Now) \div 1000,
          reason |-> Undefined,
          retry_after |-> JsNull]
    ELSE [state |-> StateNumberToString(o.state),
          has_expires |-> FALSE,
          expires |-> 0,
          reason |-> IF o.terminated_reason # Null THEN o.terminated_reason ELSE Undefined,
          retry_after |-> o.terminated_retry_after]

\* The Subscription-State value notify composes (lines 596-619).
NtfSubscriptionState(o) ==
    IF o.state # STATE_TERMINATED
    THEN [state |-> StateNumberToString(o.state),
          has_expires |-> TRUE,
          expires |-> Max((o.expires_timestamp.at - Now) \div 1000, 0),
          reason |-> Undefined,
          retry_after |-> JsNull]
    ELSE [state |-> StateNumberToString(o.state),
          has_expires |-> FALSE,
          expires |-> 0,
          reason |-> IF o.terminated_reason # Null THEN o.terminated_reason ELSE Undefined,
          retry_after |-> o.terminated_retry_after]

\* notify without its check of the dialog.
NtfNotify_Unguarded(m, body) ==
    Do(m, FxSend("NOTIFY",
                 [subs_state |-> NtfSubscriptionState(m.o),
                  content_type |-> IF body # Null THEN m.o.content_type ELSE Undefined],
                 body))

\* notify (lines 584-659).
NtfNotify(m, body) ==
    IF ~m.o.dialog
    THEN m
    ELSE Do(m, FxSend("NOTIFY",
                      [subs_state |-> NtfSubscriptionState(m.o),
                       content_type |-> IF body # Null THEN m.o.content_type
                                        ELSE Undefined],
                      body))

RECURSIVE NtfEmit(_, _, _, _)
RECURSIVE NtfDialogTerminated(_, _, _)

\* _dialogTerminated with send_final_notify taken from the wrong code.
NtfDialogTerminated_WrongFlag(m, termination_code, react) ==
    IF ~m.o.dialog
    THEN m
    ELSE LET m1 == [m EXCEPT !.o.state = STATE_TERMINATED,
                             !.o.expires_timer = NoTimer,
                             !.o.dialog = FALSE]
             m2 == Do(Do(m1, FxClearTimeout("expires_timer")), FxUA("dialog.terminate"))
         IN  NtfEmit(m2, "terminated",
                     [code |-> termination_code,
                      send_final_notify |-> termination_code = SEND_FINAL_NOTIFY],
                     react)

\* _dialogTerminated without its check of the dialog.
NtfDialogTerminated_Unguarded(m, termination_code, react) ==
    LET m1 == [m EXCEPT !.o.state = STATE_TERMINATED,
                        !.o.expires_timer = NoTimer,
                        !.o.dialog = FALSE]
        m2 == Do(Do(m1, FxClearTimeout("expires_timer")), FxUA("dialog.terminate"))
    IN  NtfEmit(m2, "terminated",
                [code |-> termination_code,
                 send_final_notify |-> termination_code = SUBSCRIPTION_EXPIRED],
                react)

\* _dialogTerminated (lines 700-720).
NtfDialogTerminated(m, termination_code, react) ==
    IF ~m.o.dialog
    THEN m
    ELSE LET m1 == [m EXCEPT !.o.state = STATE_TERMINATED,
                             !.o.expires_timer = NoTimer,
                             !.o.dialog = FALSE]
             m2 == Do(Do(m1, FxClearTimeout("expires_timer")), FxUA("dialog.terminate"))
         IN  NtfEmit(m2, "terminated",
                     [code |-> termination_code,
                      send_final_notify |-> termination_code = SUBSCRIPTION_EXPIRED],
                     react)

\* terminate (lines 668-679).
NtfTerminate(m, body, reason, retryAfter, react) ==
    LET m1 == [m EXCEPT !.o.state = STATE_TERMINATED,
                        !.o.terminated_reason = reason,
                        !.o.terminated_retry_after = retryAfter]
    IN  NtfDialogTerminated(NtfNotify(m1, body), SEND_FINAL_NOTIFY, react)

\* this.emit(name, args), and the application's listener running inside it.
NtfEmit(m, name, args, react) ==
    LET m1 == Do(m, FxEmit(name, args))
        inner == IF react.depth > 0 THEN [react EXCEPT !.depth = @ - 1] ELSE NoReaction
        todo == IF react.depth = 0 THEN "none"
                ELSE IF name = "subscribe"
                THEN IF react.subscribe = "test"
                     THEN IF args.is_unsubscribe THEN "terminate" ELSE "notify"
                     ELSE react.subscribe
                ELSE IF name = "terminated"
                THEN IF react.terminated = "test"
                     THEN IF args.send_final_notify THEN "terminate" ELSE "none"
                     ELSE react.terminated
                ELSE "none"
    IN  CASE todo = "notify" -> NtfNotify(Do(m1, FxCall("notify")), "text")
          [] todo = "terminate" ->
               NtfTerminate(Do(m1, FxCall("terminate")), "text", Null, JsNull, inner)
          [] OTHER -> m1

\* _setExpiresTimer (lines 722-738).
NtfSetExpiresTimer(m) ==
    LET delay == ToNumber(m.o.expires) * 1000
        m1 == [m EXCEPT !.o.expires_timestamp = Timestamp(Now + delay),
                        !.o.expires_timer = Timer(delay)]
    IN  Do(Do(m1, FxClearTimeout("expires_timer")), FxSetTimeout("expires_timer", delay))

\* The callback _setExpiresTimer arms (lines 727-737).
NtfExpired(m, react) ==
    IF ~m.o.dialog
    THEN m
    ELSE NtfDialogTerminated(NtfNotify([m EXCEPT !.o.terminated_reason = "timeout"], Null),
                             SUBSCRIPTION_EXPIRED, react)

\* onErrorResponse taking 407 for any other failure.
NtfOnErrorResponseOf_No407(m, status_code, react) ==
    IF status_code = 401
    THEN NtfDialogTerminated(m, NOTIFY_FAILED_AUTHENTICATION, react)
    ELSE NtfDialogTerminated(m, NOTIFY_NON_OK_RESPONSE, react)

\* onErrorResponse of notify's eventHandlers (lines 641-651).
NtfOnErrorResponseOf(m, status_code, react) ==
    IF status_code = 401 \/ status_code = 407
    THEN NtfDialogTerminated(m, NOTIFY_FAILED_AUTHENTICATION, react)
    ELSE NtfDialogTerminated(m, NOTIFY_NON_OK_RESPONSE, react)

\* receiveRequest (lines 514-552).
NtfReceiveRequest(m, request, react) ==
    IF request.method # "SUBSCRIBE"
    THEN Do(m, FxReply(405))
    ELSE
    LET m1 == [m EXCEPT !.o.expires = IF request.has_expires
                                      THEN JsStr(request.expires)
                                      ELSE JsNum(DefaultExpires)]
        m2 == Do(m1, FxReply(200))
        is_unsubscribe == StrictEqNum(m2.o.expires, 0)
        m3 == IF ~is_unsubscribe THEN NtfSetExpiresTimer(m2) ELSE m2
        m4 == NtfEmit(m3, "subscribe",
                      [is_unsubscribe |-> is_unsubscribe, body |-> request.body,
                       content_type |-> request.content_type], react)
    IN  IF is_unsubscribe
        THEN NtfDialogTerminated(m4, RECEIVE_UNSUBSCRIBE, react)
        ELSE m4

NtfSetActiveState_Always(m) == [m EXCEPT !.o.state = STATE_ACTIVE]

\* setActiveState (lines 570-578).
NtfSetActiveState(m) ==
    IF m.o.state = STATE_PENDING THEN [m EXCEPT !.o.state = STATE_ACTIVE] ELSE m

\* The object the constructor builds from the initial SUBSCRIBE (lines
\* 433-507); the Dialog it creates registers itself with the UA.
NotifierNew(subscribe, contentType, pending) ==
    LET o == [ initial_subscribe |-> subscribe,
               expires_timestamp |-> NullTimestamp,
               expires_timer |-> NoTimer,
               state |-> IF pending THEN STATE_PENDING ELSE STATE_ACTIVE,
               terminated_reason |-> Null,
               terminated_retry_after |-> JsNull,
               content_type |-> contentType,
               expires |-> ParseInt(subscribe.has_expires, subscribe.expires),
               dialog |-> TRUE ]
    IN  IF JsGreater(o.expires, 0)
        THEN NtfSetExpiresTimer([o |-> o, fx |-> <<>>]).o
        ELSE o

(***************************************************************************)
(* History of the Subscriber's effects.                                    *)
(***************************************************************************)
Count(n) == Min(MaxCount, n + 1)

\* What the dialog layer hands to receiveRequest.
NoEvent == [present |-> FALSE, name |-> Undefined, id |-> Undefined]
NoSubsState ==
    [present |-> FALSE, state |-> Undefined, has_expires |-> FALSE, expires |-> 0,
     reason |-> Undefined]
SubsState(state, has_expires, expires, reason) ==
    [present |-> TRUE, state |-> state, has_expires |-> has_expires,
     expires |-> expires, reason |-> reason]
SubsStates ==
    {SubsState(st, FALSE, 0, Undefined) : st \in {"pending", "active"}}
    \cup {SubsState("terminated", FALSE, 0, r) : r \in Reasons}
SubsStatesNoBody ==
    {SubsState(st, TRUE, e, Undefined) :
            st \in {"pending", "active"}, e \in SubsStateExpires}
Event(name, id) == [present |-> TRUE, name |-> name, id |-> id]
Notify(event, subs_state, body, content_type) ==
    [method |-> "NOTIFY", event |-> event, subs_state |-> subs_state, body |-> body,
     content_type |-> content_type]
\* No request: what a step that is not receiveRequest processed.
NoNotify == [Notify(NoEvent, NoSubsState, Null, Undefined) EXCEPT !.method = "none"]

\* No response: what a step that is not onReceiveResponse processed.
NoResponse == [status_code |-> 0, to_tag |-> Null, has_expires |-> FALSE, expires |-> 0]

SubMonInit ==
    [ was_terminated |-> FALSE,    \* is_terminated when the last step began
      was_final_notify |-> FALSE,  \* final_notify when the last step began
      terminated |-> 0,            \* `terminated` events emitted
      final_notify |-> FALSE,      \* a `notify` with is_final was emitted
      registered |-> FALSE,        \* the UA's dialog table holds the Subscriber
      was_unsubscribed |-> FALSE,  \* _send_unsubscribe when the last step began
      was_state |-> "init",        \* _state when the last step began
      request |-> NoNotify,        \* the request the last step processed
      status_code |-> 0,           \* the status of the response it processed
      response |-> NoResponse,     \* that response
      expires |-> 0,               \* the expires last applied (2xx or NOTIFY)
      unsubscribes |-> 0,          \* SUBSCRIBEs sent with Expires: 0
      unsubscribe_timers |-> 0,    \* 30 s timers armed
      newDialog |-> 0,             \* calls of UA.newDialog
      destroyDialog |-> 0 ]        \* calls of UA.destroyDialog

SubObserve1(mon, e) ==
    CASE e.k = "emit" ->
           [mon EXCEPT
              !.terminated = IF e.name = "terminated" THEN Count(@) ELSE @,
              !.final_notify = @ \/ (e.name = "notify" /\ e.args.is_final)]
      [] e.k = "ua" ->
           [mon EXCEPT
              !.registered = e.call = "newDialog",
              !.newDialog = IF e.call = "newDialog" THEN Count(@) ELSE @,
              !.destroyDialog = IF e.call = "destroyDialog" THEN Count(@) ELSE @]
      [] e.k = "send" ->
           [mon EXCEPT !.unsubscribes = IF e.hdr.expires = 0 THEN Count(@) ELSE @]
      [] e.k = "setTimeout" ->
           [mon EXCEPT !.unsubscribe_timers =
                          IF e.timer = "unsubscribe_timeout_timer" THEN Count(@) ELSE @,
                       !.expires = IF e.timer = "expires_timer" THEN e.expires ELSE @]
      [] OTHER -> mon

RECURSIVE SubObserve(_, _)
SubObserve(mon, fx) ==
    IF fx = <<>> THEN mon ELSE SubObserve(SubObserve1(mon, Head(fx)), Tail(fx))

(***************************************************************************)
(* The Subscriber's steps: the application's calls, the transaction        *)
(* layer's callbacks, the dialog layer's requests and the timers.          *)
(***************************************************************************)
\* One step ends: the object, its effects and their history are stored; the
\* step's SUBSCRIBEs become transactions and `finished` of them end.
SubCommitWith(m, finished, request, response) ==
    /\ m.o.cseq <= MaxSends
    /\ sub' = m.o
    /\ sub_fx' = m.fx
    /\ sub_mon' = SubObserve([sub_mon EXCEPT !.was_terminated = sub.is_terminated,
                                             !.was_final_notify = sub_mon.final_notify,
                                             !.was_unsubscribed = sub.send_unsubscribe,
                                             !.was_state = sub.state,
                                             !.request = request,
                                             !.status_code = response.status_code,
                                             !.response = response,
                                             !.expires =
                                                 IF /\ response.status_code >= 200
                                                    /\ response.status_code < 300
                                                    /\ response.has_expires
                                                    /\ response.expires = 0
                                                 THEN 0 ELSE @],
                             m.fx)
    /\ sub_tx' = (sub_tx - finished) + Cardinality(SendIdx(m.fx))

SubCommitRequest(m, finished, request) ==
    SubCommitWith(m, finished, request, NoResponse)
SubCommitResponse(m, finished, response) ==
    SubCommitWith(m, finished, NoNotify, response)
SubCommit(m, finished) == SubCommitWith(m, finished, NoNotify, NoResponse)

\* What the transaction layer hands to onReceiveResponse.
Responses ==
    [status_code : StatusCodes \ {200}, to_tag : ToTags, has_expires : {FALSE},
     expires : {0}]
    \cup [status_code : {200}, to_tag : ToTags, has_expires : {TRUE},
          expires : ExpiresValues]
    \cup [status_code : {200}, to_tag : ToTags, has_expires : {FALSE}, expires : {0}]

\* Requests whose Event matches the Subscriber's, and requests the Subscriber
\* rejects: another method, no (parseable) Event, another name, another id.
NotifyRequests ==
    {Notify(Event(sub.event_name, sub.event_id), ss, Null, Undefined) :
        ss \in SubsStates \cup SubsStatesNoBody \cup {NoSubsState}}
    \cup {Notify(Event(sub.event_name, sub.event_id), ss, "text", "text/plain") :
            ss \in SubsStates \cup {SubsState("Active", FALSE, 0, Undefined)}}
    \cup {Notify(ev, SubsState("active", FALSE, 0, Undefined), "text", "text/plain") :
            ev \in {NoEvent, Event("presence", sub.event_id)}
                   \cup {Event(sub.event_name, id) : id \in EventIds \ {sub.event_id}}}
    \cup {[Notify(NoEvent, NoSubsState, Null, Undefined) EXCEPT !.method = "OPTIONS"]}

\* The choices a step does not read are not drawn: Math.random() is read by
\* _scheduleSubscribe for expires >= 140 only, and the application's listener
\* runs only for a NOTIFY that gets as far as its body.
RandomFor(expires) == IF expires >= RefreshRandomFrom THEN RandomNumerators ELSE {0}
ReactionsFor(request) ==
    IF request.method = "NOTIFY" /\ request.subs_state.present /\ request.body # Null
    THEN SubReactions
    ELSE {"none"}

SubCallSubscribe ==
    \E body \in Bodies :
        SubCommit(SubSubscribe(SubEnter("subscribe"), body), 0)

SubCallUnsubscribe ==
    \E body \in Bodies :
        SubCommit(SubUnsubscribe(SubEnter("unsubscribe"), body), 0)

\* onAuthenticated (lines 553-556): the transaction goes on with a new request.
SubOnAuthenticated ==
    /\ sub_tx > 0
    /\ SubCommit([SubEnter("onAuthenticated") EXCEPT !.o.cseq = @ + 1], 0)

\* onRequestTimeout (lines 558-561).
SubOnRequestTimeout ==
    /\ sub_tx > 0
    /\ SubCommit(SubDialogTerminated(SubEnter("onRequestTimeout"),
                                     SUBSCRIBE_RESPONSE_TIMEOUT, Undefined, "none"), 1)

\* onTransportError (lines 563-566).
SubOnTransportError ==
    /\ sub_tx > 0
    /\ SubCommit(SubDialogTerminated(SubEnter("onTransportError"),
                                     SUBSCRIBE_TRANSPORT_ERROR, Undefined, "none"), 1)

SubResponse ==
    /\ sub_tx > 0
    /\ \E response \in Responses :
       \E k \in RandomFor(IF response.has_expires THEN response.expires
                          ELSE DefaultExpires) :
        SubCommitResponse(SubOnReceiveResponse(SubEnter("onReceiveResponse"),
                                               response, k, "none"),
                          IF response.status_code >= 200 THEN 1 ELSE 0,
                          response)

\* The UA hands an in-dialog request to the Subscriber its dialog table holds.
SubNotify ==
    /\ sub_mon.registered
    /\ \E request \in NotifyRequests :
       \E k \in RandomFor(request.subs_state.expires), react \in ReactionsFor(request) :
        SubCommitRequest(SubReceiveRequest(SubEnter("receiveRequest"),
                                           request, k, react), 0, request)

SubRefreshTimer ==
    /\ TimerDue(sub.expires_timer)
    /\ SubCommit(SubRefresh(SubEnter("expires_timer")), 0)

SubUnsubscribeTimer ==
    /\ TimerDue(sub.unsubscribe_timeout_timer)
    /\ SubCommit(SubDialogTerminated(
                     [SubEnter("unsubscribe_timeout_timer")
                        EXCEPT !.o.unsubscribe_timeout_timer = NoTimer],
                     UNSUBSCRIBE_TIMEOUT, Undefined, "none"), 0)

(***************************************************************************)
(* History of the Notifier, and its steps: the application's calls, the    *)
(* dialog layer's requests and NOTIFY callbacks, and the expiry timer.     *)
(***************************************************************************)
NoRequest == [Subscribe(FALSE, 0, Null, Undefined) EXCEPT !.method = "none"]

NtfMonInit ==
    [ was_terminated |-> FALSE,   \* `terminated` was emitted when the last step began
      terminated |-> 0,           \* `terminated` events emitted
      notifies |-> 0,             \* NOTIFYs sent
      final_notifies |-> 0,       \* NOTIFYs sent with Subscription-State terminated
      terminate_calls |-> 0,      \* calls of terminate()
      request |-> NoRequest,      \* the request the last step processed
      status_code |-> 0 ]         \* the status of the response it processed

NtfObserve1(mon, e) ==
    CASE e.k = "emit" ->
           [mon EXCEPT !.terminated = IF e.name = "terminated" THEN Count(@) ELSE @]
      [] e.k = "send" ->
           [mon EXCEPT
              !.notifies = @ + 1,
              !.final_notifies = IF e.hdr.subs_state.state = "terminated"
                                 THEN Count(@) ELSE @]
      [] e.k = "call" ->
           [mon EXCEPT !.terminate_calls = IF e.what = "terminate" THEN Count(@) ELSE @]
      [] OTHER -> mon

RECURSIVE NtfObserve(_, _)
NtfObserve(mon, fx) ==
    IF fx = <<>> THEN mon ELSE NtfObserve(NtfObserve1(mon, Head(fx)), Tail(fx))

\* One step ends: the object, its effects and their history are stored; the
\* step's NOTIFYs become transactions and `finished` of them end.
NtfCommitWith(m, request, finished, status_code) ==
    LET mon == NtfObserve([ntf_mon EXCEPT !.was_terminated = ntf_mon.terminated > 0,
                                          !.request = request,
                                          !.status_code = status_code],
                          m.fx)
    IN  /\ mon.notifies <= MaxNotifies
        /\ ntf' = m.o
        /\ ntf_fx' = m.fx
        /\ ntf_mon' = mon
        /\ ntf_tx' = (ntf_tx - finished) + Cardinality(SendIdx(m.fx))

NtfCommit(m, request, finished) == NtfCommitWith(m, request, finished, 0)

\* The SUBSCRIBEs a Notifier is constructed from, and the requests the dialog
\* hands to receiveRequest.
InitialSubscribes ==
    { Subscribe(TRUE, 3, "text", "text/plain"),
      Subscribe(TRUE, 0, Null, Undefined),
      Subscribe(FALSE, 0, Null, Undefined) }
NtfRequests ==
    InitialSubscribes
    \cup {[Subscribe(FALSE, 0, Null, Undefined) EXCEPT !.method = "INFO"]}
TerminatedReactions == {Reaction("none", t) : t \in {"none", "terminate"}}
TerminateArguments ==
    { [reason |-> Null, retryAfter |-> JsNull],
      [reason |-> "noresource", retryAfter |-> JsNum(5)] }

\* start (lines 560-565).
NtfStart ==
    \E react \in NtfReactions :
        NtfCommit(NtfReceiveRequest(NtfEnter("start"), ntf.initial_subscribe, react),
                  ntf.initial_subscribe, 0)

\* The dialog hands an in-dialog request to the Notifier that owns it.
NtfSubscribe ==
    /\ ntf.dialog
    /\ \E request \in NtfRequests, react \in NtfReactions :
        NtfCommit(NtfReceiveRequest(NtfEnter("receiveRequest"), request, react),
                  request, 0)

NtfCallSetActiveState ==
    NtfCommit(NtfSetActiveState(NtfEnter("setActiveState")), NoRequest, 0)

NtfCallNotify ==
    \E body \in Bodies :
        NtfCommit(NtfNotify(NtfEnter("notify"), body), NoRequest, 0)

NtfCallTerminate ==
    \E body \in Bodies, how \in TerminateArguments, react \in TerminatedReactions :
        NtfCommit(NtfTerminate(NtfEnter("terminate"), body, how.reason, how.retryAfter,
                               react),
                  NoRequest, 0)

\* The eventHandlers notify hands to Dialog.sendRequest (lines 633-656).
NtfOnRequestTimeout ==
    /\ ntf_tx > 0
    /\ \E react \in TerminatedReactions :
        NtfCommit(NtfDialogTerminated(NtfEnter("onRequestTimeout"),
                                      NOTIFY_RESPONSE_TIMEOUT, react), NoRequest, 1)

NtfOnTransportError ==
    /\ ntf_tx > 0
    /\ \E react \in TerminatedReactions :
        NtfCommit(NtfDialogTerminated(NtfEnter("onTransportError"),
                                      NOTIFY_TRANSPORT_ERROR, react), NoRequest, 1)

NtfOnErrorResponse ==
    /\ ntf_tx > 0
    /\ \E status_code \in StatusCodes \ {100, 200}, react \in TerminatedReactions :
        NtfCommitWith(NtfOnErrorResponseOf(NtfEnter("onErrorResponse"), status_code,
                                           react),
                      NoRequest, 1, status_code)

NtfOnDialogError ==
    /\ ntf_tx > 0
    /\ \E react \in TerminatedReactions :
        NtfCommit(NtfDialogTerminated(NtfEnter("onDialogError"),
                                      NOTIFY_NON_OK_RESPONSE, react), NoRequest, 1)

\* A 2xx to a NOTIFY: notify registers no handler for it.
NtfOnSuccessResponse ==
    /\ ntf_tx > 0
    /\ NtfCommit(NtfEnter("onSuccessResponse"), NoRequest, 1)

NtfExpiresTimer ==
    /\ TimerDue(ntf.expires_timer)
    /\ \E react \in TerminatedReactions :
        NtfCommit(NtfExpired([NtfEnter("expires_timer") EXCEPT !.o.expires_timer = NoTimer],
                             react),
                  NoRequest, 0)

(***************************************************************************)
(* The clock.                                                              *)
(***************************************************************************)
ArmedDeadlines ==
    {t.at : t \in {x \in {sub.expires_timer, sub.unsubscribe_timeout_timer,
                          ntf.expires_timer} : x.armed}}

SubLater(o, d) ==
    [o EXCEPT !.expires_timer = TimerLater(@, d),
              !.unsubscribe_timeout_timer = TimerLater(@, d),
              !.expires_timestamp = TimestampLater(@, d)]

NtfLater(o, d) ==
    [o EXCEPT !.expires_timer = TimerLater(@, d),
              !.expires_timestamp = TimestampLater(@, d)]

\* d ms pass.
Pass(d) ==
    /\ sub' = SubLater(sub, d)
    /\ ntf' = NtfLater(ntf, d)
    /\ UNCHANGED <<sub_fx, sub_tx, sub_mon, ntf_fx, ntf_tx, ntf_mon, loop_vars>>

\* Time passes by one free step.
Tick ==
    /\ ticks < MaxTicks
    /\ ticks' = ticks + 1
    /\ Pass(TickMs)

\* Time passes up to the next deadline of a timer.
TickToTimer ==
    /\ \E t \in ArmedDeadlines : t > Now
    /\ Pass(CHOOSE t \in ArmedDeadlines :
                t > Now /\ \A u \in ArmedDeadlines : u > Now => t <= u)
    /\ UNCHANGED ticks

(***************************************************************************)
(* Specification of one Subscriber in its environment.                     *)
(***************************************************************************)
\* The options the application constructs its Subscriber with: an event with
\* and without id, a content type or none.
SubOptions ==
    { [eventId |-> Undefined, expires |-> 3600, contentType |-> "text/plain"],
      [eventId |-> "1", expires |-> 3600, contentType |-> Undefined] }

\* The other side while one side is studied alone.
NtfIdle ==
    /\ ntf = NotifierNew(Subscribe(TRUE, 0, Null, Undefined), "text/plain", FALSE)
    /\ ntf_fx = <<>>
    /\ ntf_tx = 0
    /\ ntf_mon = NtfMonInit
SubIdle ==
    /\ sub = SubscriberNew(Undefined, 3600, "text/plain")
    /\ sub_fx = <<>>
    /\ sub_tx = 0
    /\ sub_mon = SubMonInit
NoApp == [log |-> <<>>, created |-> FALSE, pending |-> FALSE, body |-> Null]
LoopIdle ==
    /\ wire = <<>>
    /\ app = NoApp

SubInit ==
    /\ \E opt \in SubOptions :
          sub = SubscriberNew(opt.eventId, opt.expires, opt.contentType)
    /\ sub_fx = <<>>
    /\ sub_tx = 0
    /\ sub_mon = SubMonInit

Init ==
    /\ ticks = 0
    /\ SubInit
    /\ NtfIdle
    /\ LoopIdle

SubFrame == UNCHANGED <<ticks, ntf_vars, loop_vars>>

SubNext ==
    \/ SubCallSubscribe /\ SubFrame
    \/ SubCallUnsubscribe /\ SubFrame
    \/ SubOnAuthenticated /\ SubFrame
    \/ SubOnRequestTimeout /\ SubFrame
    \/ SubOnTransportError /\ SubFrame
    \/ SubResponse /\ SubFrame
    \/ SubNotify /\ SubFrame
    \/ SubRefreshTimer /\ SubFrame
    \/ SubUnsubscribeTimer /\ SubFrame
    \/ TickToTimer

SubSpec == Init /\ [][SubNext]_vars

\* One Subscriber, of an event without id, with the host's timers: time does
\* pass while a timer is armed, and a timer that is due does fire.
SubLiveInit ==
    /\ ticks = 0
    /\ SubIdle
    /\ NtfIdle
    /\ LoopIdle

SubLiveSpec ==
    /\ SubLiveInit
    /\ [][SubNext]_vars
    /\ WF_vars(TickToTimer)
    /\ WF_vars(SubUnsubscribeTimer /\ SubFrame)

(***************************************************************************)
(* Specification of one Notifier in its environment.                       *)
(***************************************************************************)
NtfInit ==
    /\ \E subscribe \in InitialSubscribes, pending \in BOOLEAN :
          ntf = NotifierNew(subscribe, "text/plain", pending)
    /\ ntf_fx = <<>>
    /\ ntf_tx = 0
    /\ ntf_mon = NtfMonInit

NtfSpecInit ==
    /\ ticks = 0
    /\ SubIdle
    /\ NtfInit
    /\ LoopIdle

NtfFrame == UNCHANGED <<ticks, sub_vars, loop_vars>>

NtfNext ==
    \/ NtfStart /\ NtfFrame
    \/ NtfSubscribe /\ NtfFrame
    \/ NtfCallSetActiveState /\ NtfFrame
    \/ NtfCallNotify /\ NtfFrame
    \/ NtfCallTerminate /\ NtfFrame
    \/ NtfOnRequestTimeout /\ NtfFrame
    \/ NtfOnTransportError /\ NtfFrame
    \/ NtfOnErrorResponse /\ NtfFrame
    \/ NtfOnDialogError /\ NtfFrame
    \/ NtfOnSuccessResponse /\ NtfFrame
    \/ NtfExpiresTimer /\ NtfFrame
    \/ Tick
    \/ TickToTimer

NtfSpec == NtfSpecInit /\ [][NtfNext]_vars

(***************************************************************************)
(* Specification of a Subscriber and a Notifier of one UA whose socket     *)
(* loops every message back (src/test/test-UA-subscriber-notifier.js): the *)
(* application subscribes, creates the Notifier on `newSubscribe`, answers *)
(* `subscribe` and `terminated` as the test's listeners do and             *)
(* unsubscribes on the first `notify`.                                     *)
(***************************************************************************)
TestReaction == Reaction("test", "test")

\* The elements of a step's effects that e holds for, in their order.
Replies(fx) == SelectSeq(fx, LAMBDA e : e.k = "reply")
Sends(fx) == SelectSeq(fx, LAMBDA e : e.k = "send")
Emits(fx) == SelectSeq(fx, LAMBDA e : e.k = "emit")
Outputs(fx) == SelectSeq(fx, LAMBDA e : e.k \in {"reply", "send"})

\* The messages the Subscriber's effects put on the socket: its SUBSCRIBEs,
\* and its replies to NOTIFYs.
SubMessage(e) ==
    IF e.k = "send"
    THEN [to |-> "notifier", kind |-> "request",
          request |-> Subscribe(TRUE, e.hdr.expires, e.body, e.hdr.content_type)]
    ELSE [to |-> "notifier", kind |-> "response", status_code |-> e.code]
SubMessages(fx) == [i \in DOMAIN Outputs(fx) |-> SubMessage(Outputs(fx)[i])]

\* The messages the Notifier's effects put on the socket: its NOTIFYs, with
\* the Event of the initial SUBSCRIBE (lines 466-471), and its replies to
\* SUBSCRIBEs, a 200 with `Expires: ${this._expires}` (line 534).
NtfMessage(o, e) ==
    IF e.k = "send"
    THEN [to |-> "subscriber", kind |-> "request",
          request |-> Notify(Event(sub.event_name, sub.event_id),
                             SubsState(e.hdr.subs_state.state,
                                       e.hdr.subs_state.has_expires,
                                       e.hdr.subs_state.expires,
                                       e.hdr.subs_state.reason),
                             e.body, e.hdr.content_type)]
    ELSE [to |-> "subscriber", kind |-> "response",
          response |-> [status_code |-> e.code, to_tag |-> "to-tag",
                        has_expires |-> e.code = 200,
                        expires |-> IF e.code = 200 THEN ToNumber(o.expires) ELSE 0]]
NtfMessages(o, fx) == [i \in DOMAIN Outputs(fx) |-> NtfMessage(o, Outputs(fx)[i])]

\* The UA's answer to a request of a dialog it does not hold.
NoDialogMessage(msg) ==
    IF msg.to = "notifier"
    THEN [to |-> "subscriber", kind |-> "response",
          response |-> [status_code |-> 481, to_tag |-> "to-tag",
                        has_expires |-> FALSE, expires |-> 0]]
    ELSE [to |-> "notifier", kind |-> "response", status_code |-> 481]

\* What the application's listeners see, in the order they see it.
Seen(who, fx) ==
    [i \in DOMAIN Emits(fx) |->
        [who |-> who, name |-> Emits(fx)[i].name, args |-> Emits(fx)[i].args]]

\* A step of the Subscriber, with what it puts on the socket and shows to the
\* application; `taken` messages leave the socket.
LoopSubWith(m, finished, taken, request, response) ==
    /\ SubCommitWith(m, finished, request, response)
    /\ wire' = SubSeq(wire, taken + 1, Len(wire)) \o SubMessages(m.fx)
    /\ app' = [app EXCEPT !.log = @ \o Seen("subscriber", m.fx)]
    /\ UNCHANGED <<ticks, ntf_vars>>

LoopSubRequest(m, finished, taken, request) ==
    LoopSubWith(m, finished, taken, request, NoResponse)
LoopSubResponse(m, finished, taken, response) ==
    LoopSubWith(m, finished, taken, NoNotify, response)
LoopSub(m, finished, taken) == LoopSubWith(m, finished, taken, NoNotify, NoResponse)

\* The same of the Notifier.
LoopNtfWith(m, request, finished, taken, status_code) ==
    /\ NtfCommitWith(m, request, finished, status_code)
    /\ wire' = SubSeq(wire, taken + 1, Len(wire)) \o NtfMessages(m.o, m.fx)
    /\ app' = [app EXCEPT !.log = @ \o Seen("notifier", m.fx), !.created = TRUE]
    /\ UNCHANGED <<ticks, sub_vars>>

LoopNtf(m, request, finished, taken) == LoopNtfWith(m, request, finished, taken, 0)

IsRequestTo(who) ==
    wire # <<>> /\ Head(wire).to = who /\ Head(wire).kind = "request"
IsResponseTo(who) ==
    wire # <<>> /\ Head(wire).to = who /\ Head(wire).kind = "response"

\* createSubscriber (test, lines 54-108): subscriber.subscribe(body).
LoopSubscribe ==
    /\ sub.state = "init"
    /\ sub_fx = <<>>
    /\ LoopSub(SubSubscribe(SubEnter("subscribe"), app.body), 0, 0)

\* ua.on('newSubscribe') and createNotifier (test, lines 17-52, 125-152): the
\* initial SUBSCRIBE makes the Notifier, which is started.
LoopNewSubscribe ==
    /\ IsRequestTo("notifier")
    /\ ~app.created
    /\ LET request == Head(wire).request
           o == NotifierNew(request, "text/plain", app.pending)
       IN  LoopNtf(NtfReceiveRequest([o |-> o, fx |-> <<FxCall("start")>>],
                                     request, TestReaction),
                   request, 0, 1)

\* The dialog hands a SUBSCRIBE to the Notifier.
LoopSubscribeIn ==
    /\ IsRequestTo("notifier")
    /\ app.created
    /\ ntf.dialog
    /\ LoopNtf(NtfReceiveRequest(NtfEnter("receiveRequest"), Head(wire).request,
                                 TestReaction),
               Head(wire).request, 0, 1)

\* The UA hands a NOTIFY to the Subscriber; the `notify` listener
\* unsubscribes on the first `notify` (test, lines 73-87).
LoopNotifyIn ==
    /\ IsRequestTo("subscriber")
    /\ sub_mon.registered
    /\ LET request == Head(wire).request
           first == \A i \in DOMAIN app.log :
                        ~(app.log[i].who = "subscriber" /\ app.log[i].name = "notify")
       IN  \E k \in RandomFor(request.subs_state.expires) :
             LoopSubRequest(SubReceiveRequest(SubEnter("receiveRequest"), request, k,
                                              IF first THEN "test" ELSE "none"),
                            0, 1, request)

\* A request of a dialog the UA does not hold (any more) is answered 481.
LoopNoDialog ==
    /\ \/ IsRequestTo("notifier") /\ app.created /\ ~ntf.dialog
       \/ IsRequestTo("subscriber") /\ ~sub_mon.registered
    /\ wire' = Tail(wire) \o <<NoDialogMessage(Head(wire))>>
    /\ UNCHANGED <<ticks, sub_vars, ntf_vars, app>>

LoopResponseToSub ==
    /\ IsResponseTo("subscriber")
    /\ LET response == Head(wire).response
       IN  \E k \in RandomFor(IF response.has_expires THEN response.expires
                              ELSE DefaultExpires) :
             LoopSubResponse(SubOnReceiveResponse(SubEnter("onReceiveResponse"),
                                                  response, k, "none"),
                             1, 1, response)

LoopResponseToNtf ==
    /\ IsResponseTo("notifier")
    /\ LET status_code == Head(wire).status_code
       IN  IF status_code >= 200 /\ status_code < 300
           THEN LoopNtf(NtfEnter("onSuccessResponse"), NoRequest, 1, 1)
           ELSE LoopNtfWith(NtfOnErrorResponseOf(NtfEnter("onErrorResponse"),
                                                 status_code, TestReaction),
                            NoRequest, 1, 1, status_code)

LoopRefreshTimer ==
    /\ TimerDue(sub.expires_timer)
    /\ LoopSub(SubRefresh(SubEnter("expires_timer")), 0, 0)

LoopUnsubscribeTimer ==
    /\ TimerDue(sub.unsubscribe_timeout_timer)
    /\ LoopSub(SubDialogTerminated(
                   [SubEnter("unsubscribe_timeout_timer")
                      EXCEPT !.o.unsubscribe_timeout_timer = NoTimer],
                   UNSUBSCRIBE_TIMEOUT, Undefined, "none"),
               0, 0)

LoopExpiresTimer ==
    /\ app.created
    /\ TimerDue(ntf.expires_timer)
    /\ LoopNtf(NtfExpired([NtfEnter("expires_timer") EXCEPT !.o.expires_timer = NoTimer],
                          TestReaction),
               NoRequest, 0, 0)

\* The options of the test (expires 3600, text/plain, a body, pending false)
\* and others.
LoopOptions ==
    [expires : {3600, 3}, body : Bodies, pending : BOOLEAN]

LoopInit ==
    /\ ticks = 0
    /\ \E opt \in LoopOptions :
          /\ sub = SubscriberNew(Undefined, opt.expires, "text/plain")
          /\ app = [NoApp EXCEPT !.pending = opt.pending, !.body = opt.body]
    /\ sub_fx = <<>>
    /\ sub_tx = 0
    /\ sub_mon = SubMonInit
    /\ NtfIdle
    /\ wire = <<>>

LoopNext ==
    \/ LoopSubscribe
    \/ LoopNewSubscribe
    \/ LoopSubscribeIn
    \/ LoopNotifyIn
    \/ LoopNoDialog
    \/ LoopResponseToSub
    \/ LoopResponseToNtf
    \/ LoopRefreshTimer
    \/ LoopUnsubscribeTimer
    \/ LoopExpiresTimer
    \/ Tick
    \/ TickToTimer

LoopSpec == LoopInit /\ [][LoopNext]_vars

(***************************************************************************)
(* Properties of the Subscriber.                                           *)
(***************************************************************************)
SubCall == IF sub_fx = <<>> THEN "new" ELSE sub_fx[1].what
SubTerminationCauses ==
    {"onRequestTimeout", "onTransportError", "onReceiveResponse", "receiveRequest",
     "unsubscribe_timeout_timer"}

\* C1: a Subscriber emits `terminated` at most once, whatever the sequence of
\* subscribe(), unsubscribe(), responses, timeouts, transport errors, NOTIFYs
\* and timer firings.
C1_SubTerminatedAtMostOnce == sub_mon.terminated <= 1

\* A termination cause reached _dialogTerminated in a Subscriber that had
\* already terminated.
C1_Witness ==
    /\ sub_mon.was_terminated
    /\ sub_mon.terminated = 1
    /\ SubCall = "onTransportError"

\* C3: `terminated` is the Subscriber's last event: no `active`, `notify` or
\* `dialogCreated` is emitted after it (in a later step or later in the same
\* step), and no `active` is emitted after a `notify` with is_final = true.
C3_SubTerminatedStrictlyLast ==
    /\ sub_mon.was_terminated => AnyEmitIdx(sub_fx) = {}
    /\ \A i \in EmitIdx(sub_fx, "terminated") : \A j \in AnyEmitIdx(sub_fx) : j <= i
    /\ sub_mon.was_final_notify => EmitIdx(sub_fx, "active") = {}

\* C5: a terminated Subscriber has no refresh timer armed, and its refresh
\* timer's callback sends no SUBSCRIBE.
C5_NoRefreshAfterTerminated ==
    /\ sub.is_terminated => ~sub.expires_timer.armed
    /\ sub_mon.was_terminated /\ SubCall = "expires_timer" => SendIdx(sub_fx) = {}

\* C10: UA.newDialog and UA.destroyDialog are each called at most once, and
\* once the Subscriber has terminated, its timers have run and its
\* transactions have ended, as many dialogs were destroyed as registered.
C10_DialogAccounting ==
    /\ sub_mon.newDialog <= 1
    /\ sub_mon.destroyDialog <= 1
    /\ (sub.is_terminated /\ ~sub.expires_timer.armed
          /\ ~sub.unsubscribe_timeout_timer.armed /\ sub_tx = 0)
        => sub_mon.destroyDialog = sub_mon.newDialog

\* C11: however often unsubscribe() is called, by the application or by its
\* `notify` listener, one SUBSCRIBE with Expires: 0 is sent, one 30 s timer is
\* armed and at most one `terminated` is emitted; a call after the first has
\* no effect and leaves the Subscriber as it was.
C11_UnsubscribeOnce ==
    /\ [](/\ sub_mon.unsubscribes <= 1
          /\ sub_mon.unsubscribe_timers <= 1
          /\ sub_mon.terminated <= 1
          /\ (SubCall = "unsubscribe" /\ sub_mon.was_unsubscribed) => Len(sub_fx) = 1)
    /\ [][(SubCallUnsubscribe /\ sub.send_unsubscribe) => sub' = sub]_vars

\* unsubscribe() was called after an unsubscribe() that sent its SUBSCRIBE.
C11_Witness ==
    /\ SubCall = "unsubscribe"
    /\ sub_mon.was_unsubscribed
    /\ sub_mon.unsubscribes = 1
    /\ sub_mon.unsubscribe_timers = 1

\* C13: once unsubscribe() has been called the Subscriber reaches terminated:
\* the 30 s timer, when it fires on a Subscriber that has not terminated,
\* reports UNSUBSCRIBE_TIMEOUT; a termination cancels the timer, and
\* UNSUBSCRIBE_TIMEOUT is reported by nothing but the timer.
C13_UnsubscribeTerminates ==
    /\ [](/\ sub.unsubscribe_timeout_timer.armed =>
                sub.unsubscribe_timeout_timer.at <= FinalNotifyTimeout
          /\ EmitIdx(sub_fx, "terminated") # {} => ~sub.unsubscribe_timeout_timer.armed
          /\ \A i \in EmitIdx(sub_fx, "terminated") :
                sub_fx[i].args.code = UNSUBSCRIBE_TIMEOUT =>
                    SubCall = "unsubscribe_timeout_timer"
          /\ (SubCall = "unsubscribe_timeout_timer" /\ ~sub_mon.was_terminated) =>
                \E i \in EmitIdx(sub_fx, "terminated") :
                    sub_fx[i].args.code = UNSUBSCRIBE_TIMEOUT)
    /\ (sub.send_unsubscribe ~> sub.is_terminated)

\* The 30 s timer fired on a Subscriber that had not terminated.
C13_Witness ==
    /\ SubCall = "unsubscribe_timeout_timer"
    /\ ~sub_mon.was_terminated
    /\ sub.is_terminated
    /\ sub.send_unsubscribe

\* The last step was receiveRequest on a Subscriber that had not terminated.
SubReceived ==
    /\ SubCall = "receiveRequest"
    /\ sub_mon.request.method = "NOTIFY"
    /\ ~sub_mon.was_terminated

\* The Event of the request is the Event of the Subscriber's SUBSCRIBE.
EventMatches(request) ==
    /\ request.event.present
    /\ request.event.name = sub.event_name
    /\ request.event.id = sub.event_id

\* The step answered `code`, terminated the Subscriber with RECEIVE_BAD_NOTIFY
\* and did nothing else: no `active`, no `notify`, no state adopted.
RejectedWith(code) ==
    /\ \E i \in ReplyIdx(sub_fx) : ReplyIdx(sub_fx) = {i} /\ sub_fx[i].code = code
    /\ \E i \in EmitIdx(sub_fx, "terminated") :
          /\ AnyEmitIdx(sub_fx) = {i}
          /\ sub_fx[i].args.code = RECEIVE_BAD_NOTIFY
    /\ sub.state = "terminated"
    /\ sub.is_terminated

\* C14: a NOTIFY whose Event (name, id) differs from the Subscriber's is
\* answered 489 and terminates the Subscriber with RECEIVE_BAD_NOTIFY, with no
\* `active`, no `notify` and no state adopted; a NOTIFY whose Event is the
\* Subscriber's is never answered 489.
C14_EventMismatch ==
    SubReceived =>
        /\ (sub_mon.request.event.present /\ ~EventMatches(sub_mon.request)) =>
              RejectedWith(489)
        /\ EventMatches(sub_mon.request) =>
              \A i \in ReplyIdx(sub_fx) : sub_fx[i].code # 489

\* A NOTIFY with another Event id was rejected.
C14_Witness ==
    /\ SubReceived
    /\ sub_mon.request.event.present
    /\ sub_mon.request.event.name = sub.event_name
    /\ sub_mon.request.event.id # sub.event_id
    /\ RejectedWith(489)

\* C15 as stated: a NOTIFY whose Event header is absent or not parseable is
\* answered 489 and terminates the Subscriber with RECEIVE_BAD_NOTIFY.
C15_NoEvent489 ==
    (SubReceived /\ ~sub_mon.request.event.present) => RejectedWith(489)

\* C15 amended: a NOTIFY whose Event header is absent or not parseable is
\* answered 400 and terminates the Subscriber with RECEIVE_BAD_NOTIFY, with no
\* `active` and no `notify`.
C15_NoEvent400 ==
    (SubReceived /\ ~sub_mon.request.event.present) => RejectedWith(400)

\* A NOTIFY without Event was rejected.
C15_Witness ==
    /\ SubReceived
    /\ ~sub_mon.request.event.present
    /\ RejectedWith(400)

\* C16: a NOTIFY with the Subscriber's Event and no Subscription-State is
\* answered 400 and terminates the Subscriber with RECEIVE_BAD_NOTIFY, with no
\* `active` and no `notify`.
C16_NoSubscriptionState ==
    (/\ SubReceived
     /\ EventMatches(sub_mon.request)
     /\ ~sub_mon.request.subs_state.present) => RejectedWith(400)

\* A NOTIFY with the Subscriber's Event and no Subscription-State was rejected.
C16_Witness ==
    /\ SubReceived
    /\ EventMatches(sub_mon.request)
    /\ ~sub_mon.request.subs_state.present
    /\ RejectedWith(400)

\* The last step was receiveRequest with a request that is no NOTIFY.
SubReceivedOther ==
    /\ SubCall = "receiveRequest"
    /\ sub_mon.request.method \notin {"NOTIFY", "none"}

\* C17: a request that is no NOTIFY is answered 405 and nothing else happens:
\* no event, no termination, and the Subscriber's state and timers are as
\* they were.
C17_OtherMethod ==
    /\ [](SubReceivedOther => sub_fx = <<FxCall("receiveRequest"), FxReply(405)>>)
    /\ [][(sub_mon'.request.method \notin {"NOTIFY", "none"} /\ SubNotify)
             => sub' = sub]_vars

\* A request that is no NOTIFY was answered by a Subscriber that goes on.
C17_Witness ==
    /\ SubReceivedOther
    /\ ReplyIdx(sub_fx) # {}
    /\ ~sub.is_terminated
    /\ sub.expires_timer.armed

\* The one `terminated` of the last step carries `code`.
SubTerminatedWith(code) ==
    \E i \in EmitIdx(sub_fx, "terminated") :
        /\ EmitIdx(sub_fx, "terminated") = {i}
        /\ sub_fx[i].args.code = code

\* C18: the outcome of a SUBSCRIBE transaction terminates a Subscriber that
\* has not terminated with this code: request timeout
\* SUBSCRIBE_RESPONSE_TIMEOUT, transport error SUBSCRIBE_TRANSPORT_ERROR,
\* response 401 or 407 SUBSCRIBE_FAILED_AUTHENTICATION, another response of
\* 300 or more SUBSCRIBE_NON_OK_RESPONSE; a 1xx or 2xx response terminates
\* nothing.
C18_SubscribeOutcomeCodes ==
    /\ (SubCall = "onRequestTimeout" /\ ~sub_mon.was_terminated) =>
          SubTerminatedWith(SUBSCRIBE_RESPONSE_TIMEOUT)
    /\ (SubCall = "onTransportError" /\ ~sub_mon.was_terminated) =>
          SubTerminatedWith(SUBSCRIBE_TRANSPORT_ERROR)
    /\ (SubCall = "onReceiveResponse" /\ ~sub_mon.was_terminated) =>
          IF sub_mon.status_code \in {401, 407}
          THEN SubTerminatedWith(SUBSCRIBE_FAILED_AUTHENTICATION)
          ELSE IF sub_mon.status_code >= 300
          THEN SubTerminatedWith(SUBSCRIBE_NON_OK_RESPONSE)
          ELSE EmitIdx(sub_fx, "terminated") = {} /\ ~sub.is_terminated

\* A 407 terminated the Subscriber.
C18_Witness ==
    /\ SubCall = "onReceiveResponse"
    /\ ~sub_mon.was_terminated
    /\ sub_mon.status_code = 407
    /\ SubTerminatedWith(SUBSCRIBE_FAILED_AUTHENTICATION)

\* Expires values on both sides of the two formulas of _scheduleSubscribe.
RefreshExpires == {1, 5, 139, 140, 141, 900}

\* C20: when the Subscriber arms its refresh timer for an expires value E (of a
\* 2xx or of a Subscription-State), the delay is within [E / 2, E - 70 s] when
\* E >= 140 and is E - 5 s when E < 140; so is the delay computed for any E and
\* any random draw.
C20_RefreshWindow ==
    LET Window(E, tau) ==
            IF E >= 140
            THEN E * 1000 <= 2 * tau /\ tau <= (E - 70) * 1000
            ELSE tau = (E - 5) * 1000
    IN  /\ \A i \in SetTimeoutIdx(sub_fx) :
              sub_fx[i].timer = "expires_timer" =>
                  Window(sub_fx[i].expires, sub_fx[i].delay)
        /\ \A E \in RefreshExpires, k \in 0..(RandomDen - 1) :
              Window(E, RefreshTimeout(E, k))

\* A NOTIFY with a shorter expires of at least 140 s re-armed the refresh timer
\* later than half of it.
C20_Witness ==
    /\ SubCall = "receiveRequest"
    /\ \E i \in SetTimeoutIdx(sub_fx) :
          /\ sub_fx[i].timer = "expires_timer"
          /\ sub_fx[i].expires >= 140
          /\ sub_fx[i].delay > sub_fx[i].expires * 500

\* The last step accepted a final NOTIFY on a Subscriber that had not
\* terminated.
SubReceivedFinal ==
    /\ SubReceived
    /\ EventMatches(sub_mon.request)
    /\ sub_mon.request.subs_state.present
    /\ ToLowerCase(sub_mon.request.subs_state.state) = "terminated"

\* C21: an accepted NOTIFY with Subscription-State terminated terminates the
\* Subscriber with RECEIVE_FINAL_NOTIFY, and the `terminated` event carries the
\* reason parameter of that Subscription-State header.
C21_FinalNotifyReason ==
    SubReceivedFinal =>
        \E i \in EmitIdx(sub_fx, "terminated") :
            /\ EmitIdx(sub_fx, "terminated") = {i}
            /\ sub_fx[i].args.code = RECEIVE_FINAL_NOTIFY
            /\ sub_fx[i].args.reason = sub_mon.request.subs_state.reason

\* C22: subscribe(body) with a body on a Subscriber without content type
\* throws and sends nothing: such a Subscriber's subscribe() either throws, with
\* no SUBSCRIBE sent and CSeq as it was, or sends one SUBSCRIBE without body.
C22_SubscribeBodyNeedsContentType ==
    /\ []((SubCall = "subscribe" /\ sub.content_type = Undefined) =>
            \/ sub_fx = <<FxCall("subscribe"), FxThrow("TypeError")>>
            \/ /\ Len(sub_fx) = 2
               /\ IsSend(sub_fx[2])
               /\ sub_fx[2].body = Null)
    /\ [][(sub_fx' = <<FxCall("subscribe"), FxThrow("TypeError")>> /\ SubCallSubscribe)
             => sub'.cseq = sub.cseq]_vars

\* subscribe("text") threw on a Subscriber without content type.
C22_Witness ==
    /\ sub.content_type = Undefined
    /\ sub_fx = <<FxCall("subscribe"), FxThrow("TypeError")>>

\* C25: UA.destroyDialog is not called in the step that terminates the
\* Subscriber, nor before 32 s have passed since: a step that emits `terminated`
\* calls no destroyDialog.
C25_DeferredDestroyDialog ==
    EmitIdx(sub_fx, "terminated") # {} =>
        \A i \in DOMAIN sub_fx : ~IsUA(sub_fx[i], "destroyDialog")

\* The last step accepted a NOTIFY (answered 200) whose Subscription-State is
\* `state`.
SubAccepted(state) ==
    /\ SubCall = "receiveRequest"
    /\ sub_mon.request.method = "NOTIFY"
    /\ \E i \in ReplyIdx(sub_fx) : sub_fx[i].code = 200
    /\ ToLowerCase(sub_mon.request.subs_state.state) = state

\* C26: `active` is emitted exactly once per transition into active: an
\* accepted NOTIFY with Subscription-State active emits it once when the state
\* before was notify_wait or pending and not when it was active, and a step that
\* emits `active` is one that took the Subscriber's state into active.
C26_ActiveOncePerTransition ==
    /\ SubAccepted("active") =>
          /\ sub_mon.was_state \in {"notify_wait", "pending"} =>
                EmitCount(sub_fx, "active") = 1
          /\ sub_mon.was_state = "active" => EmitCount(sub_fx, "active") = 0
    /\ EmitIdx(sub_fx, "active") # {} =>
          sub_mon.was_state # "active" /\ sub.state = "active"

\* The last step accepted a NOTIFY (answered 200).
SubAcceptedNotify ==
    /\ SubCall = "receiveRequest"
    /\ sub_mon.request.method = "NOTIFY"
    /\ \E i \in ReplyIdx(sub_fx) : sub_fx[i].code = 200

\* C27: an accepted NOTIFY with a body emits exactly one `notify`, whose
\* is_final is true exactly when the Subscription-State is terminated, and one
\* without body emits none; `notify` comes before `terminated` and before the
\* dialog is given up, so the Subscriber terminates after it.
C27_NotifyEvent ==
    SubAcceptedNotify =>
        LET notifies == EmitIdx(sub_fx, "notify")
            final == ToLowerCase(sub_mon.request.subs_state.state) = "terminated"
        IN  /\ sub_mon.request.body = Null => notifies = {}
            /\ sub_mon.request.body # Null =>
                  \E i \in notifies :
                      /\ notifies = {i}
                      /\ sub_fx[i].args.is_final = final
                      /\ sub_fx[i].args.body = sub_mon.request.body
                      /\ \A j \in DOMAIN sub_fx :
                            (IsEmit(sub_fx[j], "terminated")
                               \/ IsUA(sub_fx[j], "destroyDialog")) => i < j
            /\ (final /\ ~sub_mon.was_terminated) => EmitCount(sub_fx, "terminated") = 1

\* A final NOTIFY with a body: `notify` with is_final, then `terminated`.
C27_Witness ==
    /\ SubAcceptedNotify
    /\ ~sub_mon.was_terminated
    /\ \E i \in EmitIdx(sub_fx, "notify"), j \in EmitIdx(sub_fx, "terminated") :
          sub_fx[i].args.is_final /\ i < j

\* C28: state terminated is absorbing, no step changes it; on a Subscriber
\* whose state is not terminated, an accepted NOTIFY that is not final sets the
\* state to its Subscription-State (a token, read in lower case).
C28_TerminatedAbsorbing ==
    /\ [][sub.state = "terminated" => sub'.state = "terminated"]_vars
    /\ [](\A state \in {"pending", "active"} :
             (SubAccepted(state) /\ sub_mon.was_state # "terminated") =>
                 sub.state = state)

\* A terminated Subscriber accepted a NOTIFY with Subscription-State active and
\* stayed terminated.
C28_Witness ==
    /\ SubAccepted("active")
    /\ sub_mon.was_state = "terminated"
    /\ sub.state = "terminated"

\* C29: an accepted NOTIFY that is not final, on a Subscriber that has not
\* terminated, whose Subscription-State expires ends more than 2 s before
\* expires_timestamp replaces the refresh timer (clearTimeout, then one
\* setTimeout) by one that fires before the new deadline, which becomes
\* expires_timestamp; when the deadline is later, or earlier by 2 s or less, or
\* there is no expires, the refresh timer and expires_timestamp stay as they are.
C29_ShorterExpires ==
    [][(/\ sub_mon'.request.method = "NOTIFY"
        /\ sub.state # "terminated"
        /\ \E state \in {"pending", "active"} : SubAccepted(state)'
        /\ ~TickToTimer)
          => LET subs_state == sub_mon'.request.subs_state
                 deadline == Now + (subs_state.expires * 1000)
                 timers == SetTimeoutIdx(sub_fx')
             IN  IF /\ subs_state.has_expires
                    /\ sub.expires_timestamp.set
                    /\ sub.expires_timestamp.at - deadline > 2000
                 THEN /\ sub'.expires_timestamp = Timestamp(deadline)
                      /\ sub'.expires_timer.armed
                      /\ sub'.expires_timer.at < deadline
                      /\ \E i \in timers :
                            /\ {j \in timers : sub_fx'[j].timer = "expires_timer"} = {i}
                            /\ \E j \in 1..(i - 1) :
                                  sub_fx'[j] = FxClearTimeout("expires_timer")
                 ELSE /\ sub'.expires_timestamp = sub.expires_timestamp
                      /\ sub'.expires_timer = sub.expires_timer
                      /\ \A i \in timers : sub_fx'[i].timer # "expires_timer"]_vars

\* A NOTIFY whose expires ended exactly 2 s before expires_timestamp left the
\* refresh timer alone, and one that ended earlier replaced it.
C29_Witness ==
    /\ \E state \in {"pending", "active"} : SubAccepted(state)
    /\ sub_mon.was_state # "terminated"
    /\ sub_mon.request.subs_state.has_expires
    /\ sub.expires_timestamp = Timestamp(Now + (sub_mon.request.subs_state.expires * 1000))
    /\ \E i \in SetTimeoutIdx(sub_fx) : sub_fx[i].timer = "expires_timer"

\* C30: a 2xx to SUBSCRIBE without Expires is taken as Expires 900; a 2xx
\* whose Expires (given or taken) is above 0 arms one refresh timer, for that
\* value, and one whose Expires is 0 arms none.
C30_ResponseExpires ==
    (/\ SubCall = "onReceiveResponse"
     /\ sub_mon.status_code >= 200
     /\ sub_mon.status_code < 300) =>
        LET expires == IF sub_mon.response.has_expires
                       THEN sub_mon.response.expires
                       ELSE 900
            armed == {i \in SetTimeoutIdx(sub_fx) : sub_fx[i].timer = "expires_timer"}
        IN  IF expires > 0
            THEN \E i \in armed :
                     /\ armed = {i}
                     /\ sub_fx[i].expires = expires
            ELSE armed = {}

\* A 2xx without Expires armed the refresh timer for 900 s.
C30_Witness ==
    /\ SubCall = "onReceiveResponse"
    /\ sub_mon.status_code = 200
    /\ ~sub_mon.response.has_expires
    /\ \E i \in SetTimeoutIdx(sub_fx) :
          sub_fx[i].timer = "expires_timer" /\ sub_fx[i].expires = 900

\* C33: whenever state is neither init nor terminated and the expires last
\* applied is above 0, expires_timestamp is set and not in the past.
C33_ExpiresTimestampAhead ==
    (sub.state \notin {"init", "terminated"} /\ sub_mon.expires > 0) =>
        /\ sub.expires_timestamp.set
        /\ sub.expires_timestamp.at >= Now

\* C36: once unsubscribe() has been called the Subscriber sends no SUBSCRIBE
\* with an Expires other than 0: the callback of the refresh timer, armed
\* before the call or by a 2xx or a NOTIFY after it, sends none.
C36_NoRefreshAfterUnsubscribe ==
    (sub_mon.was_unsubscribed /\ SubCall = "expires_timer") =>
        \A i \in SendIdx(sub_fx) : sub_fx[i].hdr.expires = 0

\* C37: subscribe() and unsubscribe() called on a terminated Subscriber send
\* nothing, leave the CSeq as it is and arm no timer.
C37_TerminatedApiInert ==
    [][(sub.is_terminated /\ SubCall' \in {"subscribe", "unsubscribe"}
           /\ ~TickToTimer) =>
          /\ SendIdx(sub_fx') = {}
          /\ SetTimeoutIdx(sub_fx') = {}
          /\ sub'.cseq = sub.cseq]_vars

\* C38: a subscribe(body) that throws because the Subscriber has no content
\* type leaves its state as it was: a Subscriber in init stays in init.
C38_FailedSubscribeKeepsState ==
    (SubCall = "subscribe" /\ \E i \in DOMAIN sub_fx : sub_fx[i] = FxThrow("TypeError")) =>
        sub.state = sub_mon.was_state

(***************************************************************************)
(* Properties of the Notifier.                                             *)
(***************************************************************************)
NtfCall == IF ntf_fx = <<>> THEN "new" ELSE ntf_fx[1].what

\* C2: a Notifier emits `terminated` at most once, whatever the sequence of
\* start(), inbound SUBSCRIBEs, notify(), terminate(), NOTIFY error callbacks
\* and expiry-timer firings, and also when the application calls terminate()
\* from inside its `subscribe` or `terminated` listener.
C2_NtfTerminatedAtMostOnce == ntf_mon.terminated <= 1

\* The `terminated` listener called terminate() while `terminated` was being
\* emitted.
C2_Witness ==
    /\ ntf_mon.terminated = 1
    /\ \E i \in EmitIdx(ntf_fx, "terminated") :
          i < Len(ntf_fx) /\ ntf_fx[i + 1] = FxCall("terminate")

\* C4: `terminated` is the Notifier's last event: once it has been emitted,
\* receiveRequest and start() emit no `subscribe` and arm no expiry timer, in
\* a later step or later in the same step.
C4_NtfTerminatedStrictlyLast ==
    /\ ntf_mon.was_terminated =>
          AnyEmitIdx(ntf_fx) = {} /\ SetTimeoutIdx(ntf_fx) = {}
    /\ \A i \in EmitIdx(ntf_fx, "terminated") :
          \A j \in AnyEmitIdx(ntf_fx) \cup SetTimeoutIdx(ntf_fx) : j <= i
    /\ ntf_mon.terminated > 0 => ~ntf.expires_timer.armed

\* C6: a terminated Notifier sends no NOTIFY, whichever of notify(),
\* terminate() and the expiry timer's callback runs; terminate() on a live
\* Notifier sends one NOTIFY with Subscription-State terminated, and however
\* often terminate() is called, one final NOTIFY is sent and one `terminated`
\* is emitted.
C6_NoNotifyAfterTerminated ==
    /\ ntf_mon.was_terminated => SendIdx(ntf_fx) = {}
    /\ \A i \in EmitIdx(ntf_fx, "terminated") : \A j \in SendIdx(ntf_fx) : j < i
    /\ ntf_mon.final_notifies <= 1
    /\ ntf_mon.terminate_calls >= 1 => ntf_mon.terminated = 1
    /\ (NtfCall = "terminate" /\ ~ntf_mon.was_terminated) =>
          /\ Cardinality(SendIdx(ntf_fx)) = 1
          /\ \A j \in SendIdx(ntf_fx) : ntf_fx[j].hdr.subs_state.state = "terminated"

\* terminate() was called a second time, after its final NOTIFY.
C6_Witness ==
    /\ NtfCall = "terminate"
    /\ ntf_mon.was_terminated
    /\ ntf_mon.terminate_calls = 2
    /\ ntf_mon.final_notifies = 1
    /\ SendIdx(ntf_fx) = {}

\* C7: when the expiry timer fires on a Notifier that has not terminated, the
\* Notifier sends one NOTIFY with Subscription-State terminated;reason=timeout
\* and then emits terminated(SUBSCRIPTION_EXPIRED, send_final_notify = true).
C7_ExpiryNotify ==
    (NtfCall = "expires_timer" /\ ~ntf_mon.was_terminated) =>
        \E i \in SendIdx(ntf_fx), j \in EmitIdx(ntf_fx, "terminated") :
            /\ SendIdx(ntf_fx) = {i}
            /\ i < j
            /\ ntf_fx[i].hdr.subs_state.state = "terminated"
            /\ ntf_fx[i].hdr.subs_state.reason = "timeout"
            /\ ntf_fx[j].args = [code |-> SUBSCRIPTION_EXPIRED,
                                 send_final_notify |-> TRUE]

\* C8: when receiveRequest processes a SUBSCRIBE on a live Notifier, it emits
\* `subscribe` with is_unsubscribe = true exactly when the Expires header is
\* 0; for Expires 0, `terminated` follows `subscribe` with RECEIVE_UNSUBSCRIBE
\* (SEND_FINAL_NOTIFY if the listener called terminate()) and a NOTIFY the
\* listener sends goes out; for another Expires the request does not
\* terminate the Notifier.
C8_Unsubscribe ==
    (/\ NtfCall \in {"start", "receiveRequest"}
     /\ ntf_mon.request.method = "SUBSCRIBE"
     /\ ~ntf_mon.was_terminated) =>
        LET zero == ntf_mon.request.has_expires /\ ntf_mon.request.expires = 0
            subscribes == EmitIdx(ntf_fx, "subscribe")
            terminateds == EmitIdx(ntf_fx, "terminated")
        IN  /\ Cardinality(subscribes) = 1
            /\ \A i \in subscribes :
                  /\ ntf_fx[i].args.is_unsubscribe = zero
                  /\ (i < Len(ntf_fx) /\ ntf_fx[i + 1].k = "call") =>
                        (i + 1 < Len(ntf_fx) /\ IsSend(ntf_fx[i + 2]))
            /\ zero =>
                  /\ ntf.state = STATE_TERMINATED
                  /\ \E j \in terminateds :
                        /\ \A i \in subscribes : i < j
                        /\ ntf_fx[j].args.code \in {RECEIVE_UNSUBSCRIBE, SEND_FINAL_NOTIFY}
            /\ ~zero =>
                  \A j \in terminateds : ntf_fx[j].args.code # RECEIVE_UNSUBSCRIBE

\* C12: in every `terminated` a Notifier emits, send_final_notify is true
\* exactly when the termination code is SUBSCRIPTION_EXPIRED.
C12_SendFinalNotifyFlag ==
    \A i \in EmitIdx(ntf_fx, "terminated") :
        ntf_fx[i].args.send_final_notify = (ntf_fx[i].args.code = SUBSCRIPTION_EXPIRED)

\* The expiry timer terminated the Notifier.
C12_Witness ==
    \E i \in EmitIdx(ntf_fx, "terminated") :
        /\ ntf_fx[i].args.code = SUBSCRIPTION_EXPIRED
        /\ ntf_fx[i].args.send_final_notify

\* The one `terminated` of the last step carries `code`.
NtfTerminatedWith(code) ==
    \E i \in EmitIdx(ntf_fx, "terminated") :
        /\ EmitIdx(ntf_fx, "terminated") = {i}
        /\ ntf_fx[i].args.code = code

\* C19: the outcome of a NOTIFY transaction terminates a Notifier that has not
\* terminated with this code: request timeout NOTIFY_RESPONSE_TIMEOUT,
\* transport error NOTIFY_TRANSPORT_ERROR, error response 401 or 407
\* NOTIFY_FAILED_AUTHENTICATION, another error response and a dialog error
\* NOTIFY_NON_OK_RESPONSE; a 2xx response terminates nothing.
C19_NotifyOutcomeCodes ==
    ~ntf_mon.was_terminated =>
        /\ NtfCall = "onRequestTimeout" => NtfTerminatedWith(NOTIFY_RESPONSE_TIMEOUT)
        /\ NtfCall = "onTransportError" => NtfTerminatedWith(NOTIFY_TRANSPORT_ERROR)
        /\ NtfCall = "onErrorResponse" =>
              IF ntf_mon.status_code \in {401, 407}
              THEN NtfTerminatedWith(NOTIFY_FAILED_AUTHENTICATION)
              ELSE NtfTerminatedWith(NOTIFY_NON_OK_RESPONSE)
        /\ NtfCall = "onDialogError" => NtfTerminatedWith(NOTIFY_NON_OK_RESPONSE)
        /\ NtfCall = "onSuccessResponse" =>
              EmitIdx(ntf_fx, "terminated") = {} /\ ntf.dialog

\* A 407 to a NOTIFY terminated the Notifier.
C19_Witness ==
    /\ NtfCall = "onErrorResponse"
    /\ ~ntf_mon.was_terminated
    /\ ntf_mon.status_code = 407
    /\ NtfTerminatedWith(NOTIFY_FAILED_AUTHENTICATION)

\* C23: for a fetch-subscribe (initial SUBSCRIBE with Expires: 0) the Notifier
\* arms no expiry timer at construction or in start(), start() emits
\* `subscribe` with is_unsubscribe = true, and when the listener calls
\* terminate() the one NOTIFY of the step is the final one and the Notifier
\* terminates with SEND_FINAL_NOTIFY.
C23_FetchSubscribe ==
    (ntf.initial_subscribe.has_expires /\ ntf.initial_subscribe.expires = 0) =>
        /\ NtfCall = "new" => ~ntf.expires_timer.armed
        /\ (NtfCall = "start" /\ ~ntf_mon.was_terminated) =>
              /\ SetTimeoutIdx(ntf_fx) = {}
              /\ EmitIdx(ntf_fx, "subscribe") # {}
              /\ \A i \in EmitIdx(ntf_fx, "subscribe") : ntf_fx[i].args.is_unsubscribe
              /\ (\E i \in DOMAIN ntf_fx : ntf_fx[i] = FxCall("terminate")) =>
                    /\ \E i \in SendIdx(ntf_fx) :
                          /\ SendIdx(ntf_fx) = {i}
                          /\ ntf_fx[i].hdr.subs_state.state = "terminated"
                    /\ NtfTerminatedWith(SEND_FINAL_NOTIFY)

\* C24: a `terminated` event of another code than RECEIVE_UNSUBSCRIBE comes
\* after a NOTIFY of this Notifier whose Subscription-State is terminated, sent
\* earlier in the step or in an earlier step.
C24_FinalNotifyBeforeTerminated ==
    LET finals == {j \in SendIdx(ntf_fx) : ntf_fx[j].hdr.subs_state.state = "terminated"}
    IN  \A i \in EmitIdx(ntf_fx, "terminated") :
            ntf_fx[i].args.code # RECEIVE_UNSUBSCRIBE =>
                \/ \E j \in finals : j < i
                \/ ntf_mon.final_notifies > Cardinality(finals)

\* C31: the expiry timer is armed by a SUBSCRIBE of Expires E > 0 (900 without
\* the header) only, for E s, after clearTimeout of the one before; and
\* SUBSCRIPTION_EXPIRED comes from that timer only. So the Notifier does not
\* expire before E s have passed since the last such SUBSCRIBE.
C31_ExpiryTimer ==
    LET expires == IF ntf_mon.request.has_expires
                   THEN ntf_mon.request.expires
                   ELSE 900
    IN  /\ \A i \in SetTimeoutIdx(ntf_fx) :
              /\ NtfCall \in {"start", "receiveRequest"}
              /\ ntf_mon.request.method = "SUBSCRIBE"
              /\ expires > 0
              /\ ntf_fx[i] = FxSetTimeout("expires_timer", expires * 1000)
              /\ SetTimeoutIdx(ntf_fx) = {i}
              /\ i > 1 /\ ntf_fx[i - 1] = FxClearTimeout("expires_timer")
        /\ (NtfCall \in {"start", "receiveRequest"}
               /\ ntf_mon.request.method = "SUBSCRIBE"
               /\ expires > 0) => SetTimeoutIdx(ntf_fx) # {}
        /\ \A i \in EmitIdx(ntf_fx, "terminated") :
              ntf_fx[i].args.code = SUBSCRIPTION_EXPIRED => NtfCall = "expires_timer"

\* C32: a NOTIFY sent while state is pending or active carries
\* `<state>;expires=N`, N the whole seconds left until the expiry deadline and
\* at least 0, and nothing else; a NOTIFY sent by terminate(body, reason,
\* retry_after) carries `terminated`, with reason exactly when one was given,
\* with retry-after exactly when one was given, and no expires.
C32_SubscriptionState ==
    /\ [](\A i \in SendIdx(ntf_fx) :
             LET subs_state == ntf_fx[i].hdr.subs_state
                 by_terminate == \E j \in 1..(i - 1) : ntf_fx[j] = FxCall("terminate")
                 \* no later terminate(): the fields hold this call's arguments
                 last == \A j \in (i + 1)..Len(ntf_fx) : ntf_fx[j] # FxCall("terminate")
             IN  IF by_terminate
                 THEN /\ subs_state.state = "terminated"
                      /\ ~subs_state.has_expires
                      /\ last =>
                            /\ subs_state.reason = IF ntf.terminated_reason # Null
                                                   THEN ntf.terminated_reason
                                                   ELSE Undefined
                            /\ subs_state.retry_after = ntf.terminated_retry_after
                 ELSE /\ subs_state.state \in {"pending", "active"}
                      /\ subs_state.has_expires
                      /\ subs_state.expires >= 0
                      /\ subs_state.reason = Undefined
                      /\ subs_state.retry_after = JsNull)
    /\ [][(ticks' = ticks /\ ~TickToTimer) =>
             \A i \in SendIdx(ntf_fx') :
                 LET subs_state == ntf_fx'[i].hdr.subs_state
                     left == (ntf'.expires_timestamp.at - Now) \div 1000
                 IN  subs_state.has_expires =>
                         subs_state.expires = IF left < 0 THEN 0 ELSE left]_vars

\* terminate(body, "noresource", 5) sent `terminated;reason=noresource;
\* retry-after=5`.
C32_Witness ==
    \E i \in SendIdx(ntf_fx) :
        /\ \E j \in 1..(i - 1) : ntf_fx[j] = FxCall("terminate")
        /\ ntf_fx[i].hdr.subs_state.state = "terminated"
        /\ ntf_fx[i].hdr.subs_state.reason = "noresource"
        /\ ntf_fx[i].hdr.subs_state.retry_after = JsNum(5)

\* C34: the Notifier's state only moves forward along pending -> active ->
\* terminated: no step lowers it (none leaves terminated, none moves active
\* to pending), and a setActiveState() step turns pending into active and
\* leaves active and terminated as they are.
C34_StateForward ==
    [][/\ ntf'.state >= ntf.state
       /\ ntf.state = STATE_TERMINATED => ntf'.state = STATE_TERMINATED
       /\ (NtfCall' = "setActiveState" /\ ticks' = ticks /\ ~TickToTimer) =>
              ntf'.state = IF ntf.state = STATE_PENDING THEN STATE_ACTIVE ELSE ntf.state]_vars

C34_Witness ==
    /\ NtfCall = "setActiveState"
    /\ ntf.state = STATE_TERMINATED
    /\ ntf_mon.terminated = 1

(***************************************************************************)
(* Properties of the two together.                                         *)
(***************************************************************************)
\* The options of the test.
TestRun == sub.expires = 3600 /\ app.body = "text" /\ ~app.pending

\* What the test checks of each event.
EventSeen(e) ==
    CASE e.name = "subscribe" -> <<e.who, e.name, e.args.is_unsubscribe>>
      [] e.name = "notify" -> <<e.who, e.name, e.args.is_final>>
      [] e.name = "terminated" /\ e.who = "notifier" ->
            <<e.who, e.name, e.args.code, e.args.send_final_notify>>
      [] e.name = "terminated" /\ e.who = "subscriber" ->
            <<e.who, e.name, e.args.code, e.args.reason>>
      [] OTHER -> <<e.who, e.name>>
EventsSeen == [i \in DOMAIN app.log |-> EventSeen(app.log[i])]

ExpectedEvents ==
    << <<"notifier", "subscribe", FALSE>>,
       <<"subscriber", "dialogCreated">>,
       <<"subscriber", "active">>,
       <<"subscriber", "notify", FALSE>>,
       <<"notifier", "subscribe", TRUE>>,
       <<"notifier", "terminated", SEND_FINAL_NOTIFY, FALSE>>,
       <<"subscriber", "notify", TRUE>>,
       <<"subscriber", "terminated", RECEIVE_FINAL_NOTIFY, Undefined>> >>

\* Nothing is in flight and no timer is armed.
LoopQuiet ==
    /\ sub.state # "init"
    /\ wire = <<>>
    /\ ArmedDeadlines = {}

\* C9: in the test's run the listeners see, in this order and nothing else:
\* notifier subscribe(false), subscriber dialogCreated, subscriber active,
\* subscriber notify(false), notifier subscribe(true), notifier
\* terminated(SEND_FINAL_NOTIFY, false), subscriber notify(true), subscriber
\* terminated(RECEIVE_FINAL_NOTIFY, undefined).
C9_TestEventOrder ==
    TestRun =>
        /\ Len(EventsSeen) <= Len(ExpectedEvents)
        /\ EventsSeen = SubSeq(ExpectedEvents, 1, Len(EventsSeen))
        /\ LoopQuiet => EventsSeen = ExpectedEvents

C39_SubOneReplyFirst ==
    SubCall = "receiveRequest" =>
        \E i \in ReplyIdx(sub_fx) :
            /\ ReplyIdx(sub_fx) = {i}
            /\ sub_fx[i].code \in {405, 400, 489, 200}
            /\ \A j \in AnyEmitIdx(sub_fx) : i < j

C39_NtfOneReplyFirst ==
    NtfCall = "receiveRequest" =>
        \E i \in ReplyIdx(ntf_fx) :
            /\ ReplyIdx(ntf_fx) = {i}
            /\ ntf_fx[i].code \in {405, 200}
            /\ \A j \in AnyEmitIdx(ntf_fx) : i < j

=============================================================================
